---- MODULE Spec2Model ----
(***************************************************************************)
(* A model of the btcpayserver-scripts operator scripts:                   *)
(*   generate_invoices.py  - concurrent batched invoice creation           *)
(*   populate_tables.py    - batched inserts into Invoices / Payments      *)
(*   generate_addresses.py - address generation and batched funding        *)
(* and of the config validation / merge functions of the three scripts.    *)
(* Each script is a process of its own; `script` says which one runs.      *)
(***************************************************************************)
EXTENDS Integers, Sequences, FiniteSets, TLC

VARIABLES
    script,                 \* which program this behaviour is a run of
    \* ---- generate_invoices.py ----
    ipc,                    \* position of main / generate_invoices_batch
    iargs,                  \* args after parse_args and the config step
    stats,                  \* BTCPayInvoiceGenerator.stats
    generated_invoices,     \* BTCPayInvoiceGenerator.generated_invoices
    failed_invoices,        \* BTCPayInvoiceGenerator.failed_invoices
    batch_start,            \* loop variable of generate_invoices_batch
    batch_tasks,            \* index -> "inflight" or what gather collected
    responses,              \* index -> what the Invoice API answered (history)
    ibatches,               \* the batches dispatched so far (history)
    api_calls,              \* HTTP requests issued so far (history)
    iexported,              \* export_results has been called
    isummary,               \* print_summary has been called
    idelays,                \* generate_invoices_batch: the sleeps between batches so far
    iexit,                  \* return value of main, "none" while running
    \* ---- populate_tables.py ----
    ppc,                    \* position of main / populate_invoices / populate_payments
    pargs,                  \* args after parse_args and the config step
    tables,                 \* table names the store holds (information_schema.tables)
    inv_stats,              \* InvoicesTablePopulator.stats
    inv_generated_invoices, \* InvoicesTablePopulator.generated_invoices
    inv_failed_invoices,    \* InvoicesTablePopulator.failed_invoices
    pay_stats,              \* PaymentsTablePopulator.stats
    generated_payments,     \* PaymentsTablePopulator.generated_payments
    failed_payments,        \* PaymentsTablePopulator.failed_payments
    invoice_ids,            \* main's invoice_ids, <<>> for None
    p_batch_start,          \* loop variable of populate_invoices / populate_payments
    pbatches,               \* the batches inserted so far and what each returned (history)
    db_calls,               \* psycopg2.connect calls so far (history)
    ddl_log,                \* outcome of each create_*_table_if_not_exists call (history)
    pexported,              \* the populators whose export_results has been called
    pexit,                  \* return value of main, "none" while running
    \* ---- generate_addresses.py ----
    apc,                    \* position of main / fund_addresses
    aargs,                  \* args after parse_args and the config step
    funding_wallet,         \* BTCAddressGenerator.funding_wallet, "None" when unset
    generated_addresses,    \* BTCAddressGenerator.generated_addresses
    lib_calls,              \* the wallet-library calls made so far (history)
    current_balance,        \* fund_addresses: current_balance
    total_needed,           \* fund_addresses: total_needed
    fund_i,                 \* fund_addresses: loop variable i
    funded_count,           \* fund_addresses: funded_count
    abatches,               \* the funding batches attempted so far (history)
    fund_result,            \* how fund_addresses ended, "none" before that
    address_file,           \* the addresses in the output file, <<>> if not written
    prompt,                 \* the mainnet prompt: whether it was shown, and the answer typed
    aexit,                  \* exit code of the process, "none" while running
    \* ---- the config step of the three mains ----
    cprogram,               \* the script whose main runs the config step
    cpc,                    \* position of main in the config step
    cshape,                 \* shape of the config file: "legacy" or "universal"
    cfields,                \* the value the file gives each field, Absent if none
    loaded_config,          \* what load_config returns for the file
    cargs,                  \* args as parse_args returned them
    merged,                 \* args after the config step
    cexit,                  \* return value of main in the config step, -1 if none
    \* ---- test_btcpay_health.py ----
    hpc,                    \* position of main / run_full_health_check
    hargs,                  \* what the command line and the config file give
    htests,                 \* results["tests"]: the status of each test run so far
    hresults,               \* results: passed_tests, total_tests, overall_status
    hsaved,                 \* the results file has been written
    hexit,                  \* return value of main, "none" while running
    \* ---- run_workflow.py ----
    wpc,                    \* position of main
    wargs,                  \* args as parse_args returned them
    wconfig,                \* the content of the config file
    children,               \* the child scripts started so far and how each ended
    wcount,                 \* success_count and total_steps
    wexit,                  \* return value of main, "none" while running
    \* ---- generate_addresses.py, the broadcast of one funding transaction ----
    bpc,                    \* position in the verification and the fallback
    btx,                    \* what the network and the endpoints do with the transaction
    btried,                 \* the broadcast strategies tried so far, in order
    tx_broadcasted,         \* fund_addresses: broadcasted, "none" before it is known
    \* ---- generate_addresses.py, create_or_load_funding_wallet and the wallet database ----
    wallet_exists,          \* the database holds a wallet of the name wallet_name
    wallet_log,             \* the calls made so far: what each found, returned and deleted
    \* ---- generate_addresses.py, generate_addresses_from_path ----
    dpc,                    \* position in generate_addresses_from_path
    dargs,                  \* start_index, count and whether there is a funding wallet
    dkeys,                  \* keys, what get_keys returned: each key named by its place in the derivation
    d_i,                    \* the loop variable i
    daddresses              \* addresses, and at the end the list returned

ivars == <<ipc, iargs, stats, generated_invoices, failed_invoices, batch_start,
           batch_tasks, responses, ibatches, api_calls, iexported, isummary, idelays,
           iexit>>

pvars == <<ppc, pargs, tables, inv_stats, inv_generated_invoices, inv_failed_invoices,
           pay_stats, generated_payments, failed_payments, invoice_ids, p_batch_start,
           pbatches, db_calls, ddl_log, pexported, pexit>>

avars == <<apc, aargs, funding_wallet, generated_addresses, lib_calls, current_balance,
           total_needed, fund_i, funded_count, abatches, fund_result, address_file,
           prompt, aexit>>

cvars == <<cprogram, cpc, cshape, cfields, loaded_config, cargs, merged, cexit>>

hvars == <<hpc, hargs, htests, hresults, hsaved, hexit>>
wvars == <<wpc, wargs, wconfig, children, wcount, wexit>>
bvars == <<bpc, btx, btried, tx_broadcasted>>
fvars == <<wallet_exists, wallet_log>>
dvars == <<dpc, dargs, dkeys, d_i, daddresses>>

vars == <<script, ivars, pvars, avars, cvars, hvars, wvars, bvars, fvars, dvars>>

\* what the actions of one script leave alone: the other scripts' state
not_gi == <<script, pvars, avars, cvars, hvars, wvars, bvars, fvars, dvars>>
not_pt == <<script, ivars, avars, cvars, hvars, wvars, bvars, fvars, dvars>>
not_ga == <<script, ivars, pvars, cvars, hvars, wvars, bvars, fvars, dvars>>
not_cf == <<script, ivars, pvars, avars, hvars, wvars, bvars, fvars, dvars>>
not_hc == <<script, ivars, pvars, avars, cvars, wvars, bvars, fvars, dvars>>
not_rw == <<script, ivars, pvars, avars, cvars, hvars, bvars, fvars, dvars>>
not_bc == <<script, ivars, pvars, avars, cvars, hvars, wvars, fvars, dvars>>
not_fw == <<script, ivars, pvars, avars, cvars, hvars, wvars, bvars, dvars>>
not_dp == <<script, ivars, pvars, avars, cvars, hvars, wvars, bvars, fvars>>

(***************************************************************************)
(* Bounds of the model.                                                    *)
(***************************************************************************)
MaxCount == 3
MaxBatch == 3

Min(a, b) == IF a < b THEN a ELSE b

\* the values --count and --batch-size take in the model, invalid ones included
CountArgs == -1 .. MaxCount
BatchArgs == 0 .. MaxBatch

\* <<>> as the empty function index -> task state
NoTasks == [i \in {} |-> "inflight"]

(***************************************************************************)
(* generate_invoices.py                                                    *)
(***************************************************************************)

\* what the Invoice API does with one POST
Responses == {"http200", "http500", "timeout", "exception"}

\* generate_invoice_data: the keys of the dict are what matters to its readers
generate_invoice_data(index) ==
    [amount   |-> 1,
     currency |-> "USD",
     posData  |-> [invoiceIndex |-> index],
     metadata |-> [orderId |-> index, buyerName |-> index]]

\* the two except-handlers of create_invoice_async: count the failure, build
\* the failure record from invoice_data['orderId'], append it, return False.
\* A KeyError raised inside a handler leaves the coroutine.
except_handler(st, fl, invoice_data, index, error_msg) ==
    LET st1 == [st EXCEPT !.failed = @ + 1]
    IN IF "orderId" \in DOMAIN invoice_data
       THEN [stats |-> st1,
             failed |-> Append(fl, [index |-> index, error |-> error_msg,
                                     order_id |-> invoice_data["orderId"]]),
             ret |-> "False"]
       ELSE [stats |-> st1, failed |-> fl, ret |-> "KeyError"]

\* create_invoice_async(session, invoice_data, index) resumed with the
\* response `resp`: the new stats and lists and what the coroutine returned
\* ("True", "False") or raised ("KeyError").
create_invoice_async(st, gen, fl, invoice_data, index, resp) ==
    CASE resp = "http200" ->
           [stats |-> [st EXCEPT !.successful = @ + 1],
            generated |-> Append(gen, [index |-> index,
                                       order_id |-> invoice_data["metadata"]["orderId"]]),
            failed |-> fl,
            ret |-> "True"]
      [] resp = "http500" ->
           LET st1 == [st EXCEPT !.failed = @ + 1]
           IN IF "orderId" \in DOMAIN invoice_data
              THEN [stats |-> st1,
                    generated |-> gen,
                    failed |-> Append(fl, [index |-> index, error |-> "HTTP 500",
                                            order_id |-> invoice_data["orderId"]]),
                    ret |-> "False"]
              ELSE \* KeyError inside the try: caught by `except Exception`
                   LET h == except_handler(st1, fl, invoice_data, index, "'orderId'")
                   IN [stats |-> h.stats, generated |-> gen,
                       failed |-> h.failed, ret |-> h.ret]
      [] resp = "timeout" ->
           LET h == except_handler(st, fl, invoice_data, index, "Request timeout")
           IN [stats |-> h.stats, generated |-> gen, failed |-> h.failed, ret |-> h.ret]
      [] resp = "exception" ->
           LET h == except_handler(st, fl, invoice_data, index, "ClientError")
           IN [stats |-> h.stats, generated |-> gen, failed |-> h.failed, ret |-> h.ret]

\* a batch end that is not cut at count
batch_end_uncut(start, size, count) == start + size

\* batch_end = min(batch_start + batch_size, count)
batch_end(start, size, count) == Min(start + size, count)

\* the state of BTCPayInvoiceGenerator after __init__, main not yet entered
GI_Fresh ==
    /\ stats = [total_requested |-> 0, successful |-> 0, failed |-> 0]
    /\ generated_invoices = <<>>
    /\ failed_invoices = <<>>
    /\ batch_start = 0
    /\ batch_tasks = NoTasks
    /\ responses = NoTasks
    /\ ibatches = <<>>
    /\ api_calls = 0
    /\ iexported = FALSE
    /\ isummary = FALSE
    /\ idelays = 0
    /\ iexit = "none"

GI_Start ==
    /\ ipc = "main"
    /\ iargs \in [count : CountArgs, batch_size : BatchArgs, test_only : BOOLEAN]
    /\ GI_Fresh

GI_Idle ==
    /\ ipc = "idle"
    /\ iargs = [count |-> 0, batch_size |-> 0, test_only |-> FALSE]
    /\ GI_Fresh

\* main, "Validate arguments": count and batch size must be positive
GI_ValidateArguments ==
    /\ script = "generate_invoices" /\ ipc = "main"
    /\ IF iargs.count <= 0 \/ iargs.batch_size <= 0
       THEN ipc' = "exit" /\ iexit' = 1
       ELSE ipc' = "test_connection" /\ iexit' = iexit
    /\ UNCHANGED not_gi /\ UNCHANGED <<iargs, stats, generated_invoices, failed_invoices,
                   batch_start, batch_tasks, responses, ibatches, api_calls,
                   iexported, isummary, idelays>>

\* main: test_connection, --test-only, then the head of generate_invoices_batch
GI_TestConnection(ok) ==
    /\ script = "generate_invoices" /\ ipc = "test_connection"
    /\ api_calls' = api_calls + 1
    /\ IF ~ok THEN
            /\ ipc' = "exit" /\ iexit' = 1 /\ stats' = stats
       ELSE IF iargs.test_only THEN
            /\ ipc' = "exit" /\ iexit' = 0 /\ stats' = stats
       ELSE /\ ipc' = "dispatch" /\ iexit' = iexit
            /\ stats' = [stats EXCEPT !.total_requested = iargs.count]
    /\ UNCHANGED not_gi /\ UNCHANGED <<iargs, generated_invoices, failed_invoices,
                   batch_start, batch_tasks, responses, ibatches,
                   iexported, isummary, idelays>>

\* generate_invoices_batch: build the tasks of the batch and hand them to gather
GI_DispatchBatch ==
    /\ script = "generate_invoices" /\ ipc = "dispatch"
    /\ LET end == batch_end(batch_start, iargs.batch_size, iargs.count)
       IN /\ batch_tasks' = [i \in (batch_start + 1) .. end |-> "inflight"]
          /\ ibatches' = Append(ibatches, <<batch_start, end>>)
          /\ api_calls' = api_calls + (end - batch_start)
    /\ ipc' = "gather"
    /\ UNCHANGED not_gi /\ UNCHANGED <<iargs, stats, generated_invoices, failed_invoices,
                   batch_start, responses, iexported, isummary, idelays, iexit>>

\* one coroutine of the batch is resumed with its response and runs to its end
GI_ResolveUnit(i, resp) ==
    /\ script = "generate_invoices" /\ ipc = "gather"
    /\ i \in DOMAIN batch_tasks /\ batch_tasks[i] = "inflight"
    /\ LET r == create_invoice_async(stats, generated_invoices, failed_invoices,
                                      generate_invoice_data(i), i, resp)
       IN /\ stats' = r.stats
          /\ generated_invoices' = r.generated
          /\ failed_invoices' = r.failed
          /\ batch_tasks' = [batch_tasks EXCEPT ![i] = r.ret]
    /\ responses' = [j \in DOMAIN responses \cup {i} |->
                        IF j = i THEN resp ELSE responses[j]]
    /\ UNCHANGED not_gi /\ UNCHANGED <<ipc, iargs, batch_start, ibatches, api_calls,
                   iexported, isummary, idelays, iexit>>

\* a wait that returns with the first task that is done
gather_first_completed(tasks) ==
    tasks = NoTasks \/ \E i \in DOMAIN tasks : tasks[i] # "inflight"

\* await asyncio.gather(*batch_tasks, return_exceptions=True) returns when
\* every task of the batch has returned or raised
gather(tasks) == \A i \in DOMAIN tasks : tasks[i] # "inflight"

\* gather has returned: the batch log line, the delay, the next batch or the
\* end of generate_invoices_batch.  Unpacking `success, _` from an exception
\* object raises TypeError, which main's `except Exception` turns into 1.
GI_BatchDone ==
    /\ script = "generate_invoices" /\ ipc = "gather"
    /\ gather(batch_tasks)
    /\ IF \E i \in DOMAIN batch_tasks : batch_tasks[i] = "KeyError" THEN
            /\ ipc' = "exit" /\ iexit' = 1
            /\ UNCHANGED <<batch_start, isummary, idelays>>
       ELSE IF batch_end(batch_start, iargs.batch_size, iargs.count) < iargs.count THEN
            /\ idelays' = idelays + 1
            /\ batch_start' = batch_start + iargs.batch_size
            /\ ipc' = "dispatch"
            /\ UNCHANGED <<iexit, isummary>>
       ELSE /\ isummary' = TRUE
            /\ ipc' = "export"
            /\ UNCHANGED <<batch_start, iexit, idelays>>
    /\ UNCHANGED not_gi /\ UNCHANGED <<iargs, stats, generated_invoices, failed_invoices,
                   batch_tasks, responses, ibatches, api_calls, iexported>>

\* main after asyncio.run: export_results and the exit code
GI_ExportAndExit ==
    /\ script = "generate_invoices" /\ ipc = "export"
    /\ iexported' = TRUE
    /\ iexit' = IF stats.failed = 0 THEN 0 ELSE 1
    /\ ipc' = "exit"
    /\ UNCHANGED not_gi /\ UNCHANGED <<iargs, stats, generated_invoices, failed_invoices,
                   batch_start, batch_tasks, responses, ibatches, api_calls,
                   isummary, idelays>>

GI_Next ==
    \/ GI_ValidateArguments
    \/ \E ok \in BOOLEAN : GI_TestConnection(ok)
    \/ GI_DispatchBatch
    \/ \E i \in 1 .. MaxCount + 1, resp \in Responses : GI_ResolveUnit(i, resp)
    \/ GI_BatchDone
    \/ GI_ExportAndExit

(***************************************************************************)
(* populate_tables.py                                                      *)
(***************************************************************************)
\* the relation names that matter in the store
TableNames == {"Payments", "Invoices", "payments", "invoices"}

\* what the store holds before the script runs: nothing, the payment
\* processor's own schema, or what an earlier run of this script created
InitTables == {{}, {"Payments", "Invoices"}, {"payments", "invoices"}, {"Payments"}}

\* PostgreSQL folds an unquoted identifier to lower case; a quoted identifier
\* and a string literal keep their case
fold(identifier) ==
    CASE identifier = "Payments" -> "payments"
      [] identifier = "Invoices" -> "invoices"
      [] OTHER -> identifier

\* the body shared by the two create_*_table_if_not_exists methods:
\*   SELECT EXISTS (... WHERE table_name = '<literal>')
\*   if not table_exists: CREATE TABLE <identifier> (...)
\* any exception (connect, DDL) gives False
create_table_if_not_exists(tbls, literal, identifier, connect_ok) ==
    IF ~connect_ok
    THEN [tables |-> tbls, ret |-> FALSE, ddl |-> "no connection"]
    ELSE LET table_exists == literal \in tbls
         IN IF ~table_exists
            THEN IF fold(identifier) \in tbls
                 THEN [tables |-> tbls, ret |-> FALSE, ddl |-> "CREATE TABLE failed"]
                 ELSE [tables |-> tbls \cup {fold(identifier)}, ret |-> TRUE,
                       ddl |-> "CREATE TABLE"]
            ELSE [tables |-> tbls, ret |-> TRUE, ddl |-> "exists"]

create_payments_table_if_not_exists(tbls, connect_ok) ==
    create_table_if_not_exists(tbls, "Payments", "Payments", connect_ok)

create_invoices_table_if_not_exists(tbls, connect_ok) ==
    create_table_if_not_exists(tbls, "Invoices", "Invoices", connect_ok)

None == <<"None">>

\* InvoicesTablePopulator.generate_invoice_data: Id is a fresh base58 string
pt_generate_invoice_data(index) ==
    [Id |-> <<"b58", index>>, StoreDataId |-> "STORE", index |-> index]

\* PaymentsTablePopulator.generate_payment_data
generate_payment_data(index, invoice_id) ==
    [Id |-> <<"uuid", index>>,
     InvoiceDataId |-> IF invoice_id # None THEN invoice_id ELSE <<"INV", index>>,
     index |-> index]

\* the outcomes of the INSERTs of one transaction that the store can produce:
\* INSERT INTO "<name>" needs the relation of exactly that name, and once a
\* statement has failed every later statement of the transaction fails
RowOutcomes(n, tbls, name) ==
    {row_ok \in [1 .. n -> BOOLEAN] :
        /\ \A j \in 1 .. n : row_ok[j] => name \in tbls
        /\ \A j \in 1 .. n : ~row_ok[j] => \A l \in j .. n : ~row_ok[l]}

\* the records a batch insert appends for the rows whose outcome is `want`
RowRecords(rows, row_ok, want, Rec(_)) ==
    LET F[j \in 0 .. Len(rows)] ==
            IF j = 0 THEN <<>>
            ELSE IF row_ok[j] = want THEN Append(F[j - 1], Rec(rows[j]))
            ELSE F[j - 1]
    IN F[Len(rows)]

CountRows(rows, row_ok, want) == Cardinality({j \in 1 .. Len(rows) : row_ok[j] = want})

payment_success_record(payment) ==
    [index |-> payment.index, payment_id |-> payment.Id,
     invoice_data_id |-> payment.InvoiceDataId]

payment_failure_record(payment) ==
    [index |-> payment.index, payment_id |-> payment.Id]

\* PaymentsTablePopulator.insert_payments_batch
insert_payments_batch(gen, fl, payments, connect_ok, row_ok, commit_ok) ==
    IF ~connect_ok
    THEN [successful |-> 0, failed |-> 0 + Len(payments), generated |-> gen, failures |-> fl]
    ELSE LET successful == CountRows(payments, row_ok, TRUE)
             failed == CountRows(payments, row_ok, FALSE)
             gen1 == gen \o RowRecords(payments, row_ok, TRUE, payment_success_record)
             fl1 == fl \o RowRecords(payments, row_ok, FALSE, payment_failure_record)
         IN IF commit_ok
            THEN [successful |-> successful, failed |-> failed,
                  generated |-> gen1, failures |-> fl1]
            ELSE [successful |-> 0, failed |-> failed + Len(payments),
                  generated |-> gen1, failures |-> fl1]

invoice_success_record(invoice) ==
    [index |-> invoice.index, invoice_id |-> invoice.Id]

invoice_failure_record(invoice) ==
    [index |-> invoice.index, invoice_id |-> invoice.Id]

\* InvoicesTablePopulator.insert_invoices_batch
insert_invoices_batch(gen, fl, invoices, connect_ok, row_ok, commit_ok) ==
    IF ~connect_ok
    THEN [successful |-> 0, failed |-> 0 + Len(invoices), generated |-> gen, failures |-> fl]
    ELSE LET successful == CountRows(invoices, row_ok, TRUE)
             failed == CountRows(invoices, row_ok, FALSE)
             gen1 == gen \o RowRecords(invoices, row_ok, TRUE, invoice_success_record)
             fl1 == fl \o RowRecords(invoices, row_ok, FALSE, invoice_failure_record)
         IN IF commit_ok
            THEN [successful |-> successful, failed |-> failed,
                  generated |-> gen1, failures |-> fl1]
            ELSE [successful |-> 0, failed |-> failed + Len(invoices),
                  generated |-> gen1, failures |-> fl1]

\* main right after parse_args: args.populate_invoices = True, whatever the
\* command line said
pt_main_args(args) == [args EXCEPT !.populate_invoices = TRUE]

\* the state of the two populators after __init__, main not yet entered
PT_Fresh ==
    /\ inv_stats = [total_requested |-> 0, successful |-> 0, failed |-> 0]
    /\ inv_generated_invoices = <<>>
    /\ inv_failed_invoices = <<>>
    /\ pay_stats = [total_requested |-> 0, successful |-> 0, failed |-> 0]
    /\ generated_payments = <<>>
    /\ failed_payments = <<>>
    /\ invoice_ids = <<>>
    /\ p_batch_start = 0
    /\ pbatches = <<>>
    /\ db_calls = 0
    /\ ddl_log = <<>>
    /\ pexported = {}
    /\ pexit = "none"

PT_Start ==
    /\ ppc = "main"
    /\ pargs \in [count : CountArgs, batch_size : BatchArgs, test_only : BOOLEAN,
                  populate_invoices : BOOLEAN]
    /\ tables \in InitTables
    /\ PT_Fresh

PT_Idle ==
    /\ ppc = "idle"
    /\ pargs = [count |-> 0, batch_size |-> 0, test_only |-> FALSE,
                populate_invoices |-> FALSE]
    /\ tables = {}
    /\ PT_Fresh

\* main, "Validate arguments": count and batch size must be positive
PT_ValidateArguments ==
    /\ script = "populate_tables" /\ ppc = "main"
    /\ IF pargs.count <= 0 \/ pargs.batch_size <= 0
       THEN ppc' = "exit" /\ pexit' = 1
       ELSE ppc' = "test_connection" /\ pexit' = pexit
    /\ UNCHANGED not_pt
    /\ UNCHANGED <<pargs, tables, inv_stats, inv_generated_invoices, inv_failed_invoices,
                   pay_stats, generated_payments, failed_payments, invoice_ids,
                   p_batch_start, pbatches, db_calls, ddl_log, pexported>>

\* main: populator.test_connection()
PT_TestConnection(ok) ==
    /\ script = "populate_tables" /\ ppc = "test_connection"
    /\ db_calls' = db_calls + 1
    /\ IF ok THEN ppc' = "create_payments_table" /\ pexit' = pexit
             ELSE ppc' = "exit" /\ pexit' = 1
    /\ UNCHANGED not_pt
    /\ UNCHANGED <<pargs, tables, inv_stats, inv_generated_invoices, inv_failed_invoices,
                   pay_stats, generated_payments, failed_payments, invoice_ids,
                   p_batch_start, pbatches, ddl_log, pexported>>

\* main: populator.create_payments_table_if_not_exists()
PT_CreatePaymentsTable(connect_ok) ==
    /\ script = "populate_tables" /\ ppc = "create_payments_table"
    /\ LET r == create_payments_table_if_not_exists(tables, connect_ok)
       IN /\ tables' = r.tables
          /\ ddl_log' = Append(ddl_log, [table |-> "Payments", ret |-> r.ret, ddl |-> r.ddl,
                                      before |-> tables, after |-> r.tables])
          /\ IF r.ret THEN ppc' = "create_invoices_table" /\ pexit' = pexit
                      ELSE ppc' = "exit" /\ pexit' = 1
    /\ db_calls' = db_calls + 1
    /\ UNCHANGED not_pt
    /\ UNCHANGED <<pargs, inv_stats, inv_generated_invoices, inv_failed_invoices,
                   pay_stats, generated_payments, failed_payments, invoice_ids,
                   p_batch_start, pbatches, pexported>>

\* main: `if args.populate_invoices` the Invoices table is created, otherwise
\* there is no invoice populator; then --test-only; then the head of
\* populate_invoices, or without invoices that of populate_payments
PT_CreateInvoicesTable(connect_ok) ==
    /\ script = "populate_tables" /\ ppc = "create_invoices_table"
    /\ IF pt_main_args(pargs).populate_invoices THEN
            LET r == create_invoices_table_if_not_exists(tables, connect_ok)
            IN /\ tables' = r.tables
               /\ ddl_log' = Append(ddl_log, [table |-> "Invoices", ret |-> r.ret,
                                              ddl |-> r.ddl, before |-> tables,
                                              after |-> r.tables])
               /\ db_calls' = db_calls + 1
               /\ pay_stats' = pay_stats
               /\ IF ~r.ret THEN
                       /\ ppc' = "exit" /\ pexit' = 1 /\ inv_stats' = inv_stats
                  ELSE IF pargs.test_only THEN
                       /\ ppc' = "exit" /\ pexit' = 0 /\ inv_stats' = inv_stats
                  ELSE /\ ppc' = "populate_invoices" /\ pexit' = pexit
                       /\ inv_stats' = [inv_stats EXCEPT !.total_requested = pargs.count]
       ELSE /\ UNCHANGED <<tables, ddl_log, db_calls, inv_stats>>
            /\ IF pargs.test_only THEN
                    /\ ppc' = "exit" /\ pexit' = 0 /\ pay_stats' = pay_stats
               ELSE /\ ppc' = "populate_payments" /\ pexit' = pexit
                    /\ pay_stats' = [pay_stats EXCEPT !.total_requested = pargs.count]
    /\ UNCHANGED not_pt
    /\ UNCHANGED <<pargs, inv_generated_invoices, inv_failed_invoices,
                   generated_payments, failed_payments, invoice_ids,
                   p_batch_start, pbatches, pexported>>

\* populate_invoices: one iteration of the batch loop; after the last one
\* print_summary, and back in main export_results, invoice_ids and the head
\* of populate_payments
PT_InsertInvoicesBatch(connect_ok, commit_ok) ==
    /\ script = "populate_tables" /\ ppc = "populate_invoices"
    /\ LET end == batch_end(p_batch_start, pargs.batch_size, pargs.count)
           batch_invoices == [j \in 1 .. (end - p_batch_start) |->
                                 pt_generate_invoice_data(p_batch_start + j)]
       IN \E row_ok \in RowOutcomes(Len(batch_invoices), tables, "Invoices") :
             LET r == insert_invoices_batch(inv_generated_invoices, inv_failed_invoices,
                                            batch_invoices, connect_ok, row_ok, commit_ok)
                 st == [inv_stats EXCEPT !.successful = @ + r.successful,
                                         !.failed = @ + r.failed]
             IN /\ inv_generated_invoices' = r.generated
                /\ inv_failed_invoices' = r.failures
                /\ inv_stats' = st
                /\ pbatches' = Append(pbatches,
                        [table |-> "Invoices", start |-> p_batch_start, end |-> end,
                         successful |-> r.successful, failed |-> r.failed,
                         slept |-> FALSE])
                /\ IF p_batch_start + pargs.batch_size < pargs.count
                   THEN /\ p_batch_start' = p_batch_start + pargs.batch_size
                        /\ UNCHANGED <<ppc, pexported, invoice_ids, pay_stats>>
                   ELSE /\ pexported' = pexported \cup {"invoices"}
                        /\ invoice_ids' =
                              IF st.successful > 0
                              THEN [j \in 1 .. Len(r.generated) |-> r.generated[j].invoice_id]
                              ELSE <<>>
                        /\ pay_stats' = [pay_stats EXCEPT !.total_requested = pargs.count]
                        /\ p_batch_start' = 0
                        /\ ppc' = "populate_payments"
    /\ db_calls' = db_calls + 1
    /\ UNCHANGED not_pt
    /\ UNCHANGED <<pargs, tables, generated_payments, failed_payments, ddl_log, pexit>>

\* populate_payments: one iteration of the batch loop; after the last one
\* print_summary, and back in main export_results and the exit code
PT_InsertPaymentsBatch(connect_ok, commit_ok) ==
    /\ script = "populate_tables" /\ ppc = "populate_payments"
    /\ LET end == batch_end(p_batch_start, pargs.batch_size, pargs.count)
           batch_payments == [j \in 1 .. (end - p_batch_start) |->
                LET i == p_batch_start + j - 1
                    invoice_id == IF invoice_ids # <<>>
                                  THEN invoice_ids[(i % Len(invoice_ids)) + 1]
                                  ELSE None
                IN generate_payment_data(i + 1, invoice_id)]
       IN \E row_ok \in RowOutcomes(Len(batch_payments), tables, "Payments") :
             LET r == insert_payments_batch(generated_payments, failed_payments,
                                            batch_payments, connect_ok, row_ok, commit_ok)
                 st == [pay_stats EXCEPT !.successful = @ + r.successful,
                                         !.failed = @ + r.failed]
             IN /\ generated_payments' = r.generated
                /\ failed_payments' = r.failures
                /\ pay_stats' = st
                /\ pbatches' = Append(pbatches,
                        [table |-> "Payments", start |-> p_batch_start, end |-> end,
                         successful |-> r.successful, failed |-> r.failed,
                         slept |-> FALSE])
                /\ IF p_batch_start + pargs.batch_size < pargs.count
                   THEN /\ p_batch_start' = p_batch_start + pargs.batch_size
                        /\ UNCHANGED <<ppc, pexported, pexit>>
                   ELSE /\ pexported' = pexported \cup {"payments"}
                        /\ pexit' = IF st.failed = 0 /\ inv_stats.failed = 0 THEN 0 ELSE 1
                        /\ p_batch_start' = p_batch_start
                        /\ ppc' = "exit"
    /\ db_calls' = db_calls + 1
    /\ UNCHANGED not_pt
    /\ UNCHANGED <<pargs, tables, inv_stats, inv_generated_invoices, inv_failed_invoices,
                   invoice_ids, ddl_log>>

PT_Next ==
    \/ PT_ValidateArguments
    \/ \E ok \in BOOLEAN : PT_TestConnection(ok)
    \/ \E ok \in BOOLEAN : PT_CreatePaymentsTable(ok)
    \/ \E ok \in BOOLEAN : PT_CreateInvoicesTable(ok)
    \/ \E connect_ok \in BOOLEAN, commit_ok \in BOOLEAN :
          PT_InsertInvoicesBatch(connect_ok, commit_ok)
    \/ \E connect_ok \in BOOLEAN, commit_ok \in BOOLEAN :
          PT_InsertPaymentsBatch(connect_ok, commit_ok)

(***************************************************************************)
(* The table-creation methods called repeatedly on one store, as successive *)
(* runs of populate_tables.py call them.                                   *)
(***************************************************************************)
MaxCalls == 3

TB_Start ==
    /\ ppc = "idle"
    /\ pargs = [count |-> 0, batch_size |-> 0, test_only |-> FALSE]
    /\ tables \in SUBSET TableNames
    /\ PT_Fresh

TB_CreatePaymentsTable(connect_ok) ==
    /\ script = "create_tables" /\ Len(ddl_log) < MaxCalls
    /\ LET r == create_payments_table_if_not_exists(tables, connect_ok)
       IN /\ tables' = r.tables
          /\ ddl_log' = Append(ddl_log, [table |-> "Payments", ret |-> r.ret, ddl |-> r.ddl,
                                      before |-> tables, after |-> r.tables])
    /\ db_calls' = db_calls + 1
    /\ UNCHANGED not_pt
    /\ UNCHANGED <<ppc, pargs, inv_stats, inv_generated_invoices, inv_failed_invoices,
                   pay_stats, generated_payments, failed_payments, invoice_ids,
                   p_batch_start, pbatches, pexported, pexit>>

TB_CreateInvoicesTable(connect_ok) ==
    /\ script = "create_tables" /\ Len(ddl_log) < MaxCalls
    /\ LET r == create_invoices_table_if_not_exists(tables, connect_ok)
       IN /\ tables' = r.tables
          /\ ddl_log' = Append(ddl_log, [table |-> "Invoices", ret |-> r.ret, ddl |-> r.ddl,
                                      before |-> tables, after |-> r.tables])
    /\ db_calls' = db_calls + 1
    /\ UNCHANGED not_pt
    /\ UNCHANGED <<ppc, pargs, inv_stats, inv_generated_invoices, inv_failed_invoices,
                   pay_stats, generated_payments, failed_payments, invoice_ids,
                   p_batch_start, pbatches, pexported, pexit>>

TB_Next ==
    \/ \E connect_ok \in BOOLEAN : TB_CreatePaymentsTable(connect_ok)
    \/ \E connect_ok \in BOOLEAN : TB_CreateInvoicesTable(connect_ok)

(***************************************************************************)
(* generate_addresses.py                                                   *)
(***************************************************************************)

\* --amount and --max-fee are BTC amounts; the model writes them in units of
\* a tenth of a satoshi, so that int(amount * 100_000_000) truncates
AmountArgs == {5, 10, 20}
FeeArgs == {5, 10}
Balances == {0, 5, 12}

SATOSHIS_PER_BTC == 100000000

\* int(amount * 100_000_000)
to_satoshis(amount) == (amount * SATOSHIS_PER_BTC) \div (10 * SATOSHIS_PER_BTC)

\* what a balance query yields when the call raises instead of returning
Raised == 0 - 1

\* get_wallet_balance: the wallet's own balance, and when that is 0 the
\* service provider's (after a utxos_update when the service shows funds)
get_wallet_balance(wallet, balance, service_balance, updated_balance) ==
    IF wallet = "None" THEN 0
    ELSE IF balance = Raised THEN 0
    ELSE IF balance # 0 THEN balance
    ELSE IF service_balance = Raised THEN balance
    ELSE IF service_balance > 0
         THEN IF updated_balance # Raised /\ updated_balance > 0
              THEN updated_balance
              ELSE service_balance
         ELSE balance

\* a total that leaves the fees out
needed_without_fee(amount_per_address, max_fee, addresses) ==
    to_satoshis(amount_per_address) * Len(addresses)

\* total_needed = (amount_satoshis + max_fee_satoshis) * len(self.generated_addresses)
needed(amount_per_address, max_fee, addresses) ==
    (to_satoshis(amount_per_address) + to_satoshis(max_fee)) * Len(addresses)

\* a slice that starts at the head of the list whatever its start
slice_from_head(list, i, j) == SubSeq(list, 1, Min(j, Len(list)))

\* generated_addresses[i:i + batch_size]: a slice stops at the end of the list
slice(list, i, j) == SubSeq(list, i + 1, Min(j, Len(list)))

\* the key-import options, and the sets of them that args may hold after the
\* config merge: none, one of them, two or all three
KeyOptions == {"private_key", "mnemonic", "key_file"}
KeyArgs ==
    {{}, {"private_key"}, {"key_file"}, {"private_key", "mnemonic"},
     {"mnemonic", "key_file"}, KeyOptions}

\* a count of the key-import methods that overlooks the key file
key_methods_without_file(args) == Cardinality(args.keys \ {"key_file"})

\* main: key_methods = sum([bool(args.private_key), bool(args.mnemonic),
\* bool(args.key_file)])
key_methods(args) == Cardinality(args.keys)

GA_Fresh ==
    /\ funding_wallet = "None"
    /\ generated_addresses = <<>>
    /\ lib_calls = <<>>
    /\ current_balance = 0
    /\ total_needed = 0
    /\ fund_i = 0
    /\ funded_count = 0
    /\ abatches = <<>>
    /\ fund_result = "none"
    /\ address_file = <<>>
    /\ prompt = [asked |-> FALSE, answer |-> <<>>]
    /\ aexit = "none"

GA_Start ==
    /\ apc = "main"
    /\ aargs \in [count : CountArgs, batch_size : BatchArgs, amount : AmountArgs,
                  max_fee : FeeArgs, no_funding : BOOLEAN, keys : KeyArgs,
                  mainnet : BOOLEAN]
    /\ GA_Fresh

GA_Idle ==
    /\ apc = "idle"
    /\ aargs = [count |-> 0, batch_size |-> 0, amount |-> 0, max_fee |-> 0,
                no_funding |-> FALSE, keys |-> {}, mainnet |-> FALSE]
    /\ GA_Fresh

\* main, "Handle key import options": the key file is read, and main returns
\* when that raises or when more than one key-import method is given
GA_KeyOptions(read_ok) ==
    /\ script = "generate_addresses" /\ apc = "main"
    /\ IF "key_file" \in aargs.keys /\ ~read_ok THEN apc' = "exit" /\ aexit' = 0
       ELSE IF key_methods(aargs) > 1 THEN apc' = "exit" /\ aexit' = 0
       ELSE apc' = "mainnet" /\ aexit' = aexit
    /\ UNCHANGED not_ga
    /\ UNCHANGED <<aargs, prompt, funding_wallet, generated_addresses, lib_calls, current_balance,
                   total_needed, fund_i, funded_count, abatches, fund_result,
                   address_file>>

\* a line of input is a sequence of characters; the answers that are tried
Answers ==
    {<<"y", "e", "s">>, <<" ", "Y", "e", "s", " ">>, <<"y">>, <<"n", "o">>, <<>>}

\* str.lower on the letters that occur in the answers
lower(str) ==
    [k \in 1 .. Len(str) |->
        CASE str[k] = "Y" -> "y"
          [] str[k] = "E" -> "e"
          [] str[k] = "S" -> "s"
          [] str[k] = "N" -> "n"
          [] str[k] = "O" -> "o"
          [] OTHER -> str[k]]

\* str.strip: the string without its leading and trailing whitespace
strip(str) ==
    LET inner == {k \in 1 .. Len(str) : str[k] # " "}
    IN IF inner = {} THEN <<>>
       ELSE SubSeq(str, CHOOSE a \in inner : \A k \in inner : a <= k,
                        CHOOSE b \in inner : \A k \in inner : k <= b)

\* a confirmation that takes any answer beginning with y
confirmed_by_initial(answer) ==
    LET response == strip(lower(answer))
    IN response # <<>> /\ response[1] = "y"

\* main: response = input(...).lower().strip(); the run goes on when
\* response is 'yes'
confirmed(answer) == strip(lower(answer)) = <<"y", "e", "s">>

\* main, "Warning for mainnet usage": with args.mainnet the operator is asked,
\* and main returns unless the answer confirms
GA_MainnetPrompt(answer) ==
    /\ script = "generate_addresses" /\ apc = "mainnet"
    /\ IF ~aargs.mainnet THEN
            /\ apc' = "wallet" /\ UNCHANGED <<prompt, aexit>>
       ELSE /\ prompt' = [asked |-> TRUE, answer |-> answer]
            /\ IF confirmed(answer) THEN apc' = "wallet" /\ aexit' = aexit
                                    ELSE apc' = "exit" /\ aexit' = 0
    /\ UNCHANGED not_ga
    /\ UNCHANGED <<aargs, funding_wallet, generated_addresses, lib_calls, current_balance,
                   total_needed, fund_i, funded_count, abatches, fund_result,
                   address_file>>

\* create_or_load_funding_wallet on a database that holds a wallet of the
\* name or not.  With a key (private_key or mnemonic) the wallet is deleted
\* if it exists and created from the key, and an exception of Wallet.create
\* is raised again.  Without one Wallet(wallet_name) loads the wallet; any
\* exception of that, of a missing wallet or another one, leads to
\* wallet_delete_if_exists(force=True) and Wallet.create with a new mnemonic.
\* An exception of wallet_delete_if_exists is logged and passed over;
\* Wallet.create raises for a name the database still holds.
create_or_load_funding_wallet(exists, key, load_ok, delete_ok, create_ok) ==
    LET loaded == ~key /\ exists /\ load_ok
        deleted == exists /\ delete_ok
        kept == exists /\ ~delete_ok
        made == create_ok /\ ~kept
        tried == IF key THEN <<>> ELSE <<"Wallet">>
    IN IF loaded
       THEN [result |-> "loaded", calls |-> <<"Wallet", "balance">>,
             deleted |-> FALSE, exists |-> TRUE]
       ELSE IF made
       THEN [result |-> IF key THEN "imported" ELSE "created",
             calls |-> tried \o <<"wallet_delete_if_exists", "Wallet.create", "balance">>,
             deleted |-> deleted, exists |-> TRUE]
       ELSE [result |-> "raised",
             calls |-> tried \o <<"wallet_delete_if_exists", "Wallet.create">>,
             deleted |-> deleted, exists |-> kept]

\* main: the funding wallet.  With --no-funding and no key there is none;
\* otherwise create_or_load_funding_wallet, whose exception leaves main.
GA_FundingWallet(exists, load_ok, delete_ok, create_ok) ==
    /\ script = "generate_addresses" /\ apc = "wallet"
    /\ IF key_methods(aargs) # 1 /\ aargs.no_funding THEN
            /\ apc' = "generate"
            /\ UNCHANGED <<funding_wallet, lib_calls, aexit>>
       ELSE LET r == create_or_load_funding_wallet(exists, key_methods(aargs) = 1, load_ok,
                                                   delete_ok, create_ok)
            IN /\ lib_calls' = lib_calls \o r.calls
               /\ IF r.result = "raised"
                  THEN funding_wallet' = funding_wallet /\ apc' = "exit" /\ aexit' = 1
                  ELSE funding_wallet' = r.result /\ apc' = "generate" /\ aexit' = aexit
    /\ UNCHANGED not_ga
    /\ UNCHANGED <<aargs, prompt, generated_addresses, current_balance, total_needed, fund_i,
                   funded_count, abatches, fund_result, address_file>>

\* save_addresses_to_file: nothing is written for an empty list, and an
\* exception of the write is logged
save_addresses_to_file(file, addresses, save_ok) ==
    IF addresses # <<>> /\ save_ok THEN addresses ELSE file

\* main: generate_addresses(count), an address whose HDKey raises is skipped;
\* save_addresses_to_file; without funding the final statistics and the end
GA_GenerateAddresses(key_ok, save_ok) ==
    /\ script = "generate_addresses" /\ apc = "generate"
    /\ LET made == {i \in 1 .. aargs.count : key_ok[i]}
           F[i \in 0 .. MaxCount + 1] ==
               IF i = 0 THEN <<>>
               ELSE IF i \in made THEN Append(F[i - 1], [index |-> i, address |-> i])
               ELSE F[i - 1]
           addresses == IF aargs.count <= 0 THEN <<>> ELSE F[aargs.count]
       IN /\ generated_addresses' = addresses
          /\ address_file' = save_addresses_to_file(address_file, addresses, save_ok)
          /\ lib_calls' = lib_calls \o [i \in 1 .. (IF aargs.count <= 0 THEN 0 ELSE aargs.count)
                                           |-> "HDKey"]
          /\ IF ~aargs.no_funding /\ addresses # <<>>
             THEN apc' = "fund_addresses" /\ aexit' = aexit
             ELSE apc' = "exit" /\ aexit' = 0
    /\ UNCHANGED not_ga
    /\ UNCHANGED <<aargs, prompt, funding_wallet, current_balance, total_needed, fund_i,
                   funded_count, abatches, fund_result>>

\* fund_addresses up to the batch loop: the balance check and the UTXO check;
\* range(0, n, 0) raises ValueError, which leaves main
GA_FundChecks(balance, service_balance, updated_balance, utxos_ok) ==
    /\ script = "generate_addresses" /\ apc = "fund_addresses"
    /\ LET bal == get_wallet_balance(funding_wallet, balance, service_balance,
                                     updated_balance)
           need == needed(aargs.amount, aargs.max_fee, generated_addresses)
       IN /\ current_balance' = bal
          /\ total_needed' = need
          /\ IF bal < need THEN
                  /\ fund_result' = "insufficient balance"
                  /\ lib_calls' = Append(lib_calls, "balance")
                  /\ apc' = "exit" /\ aexit' = 0
             ELSE IF ~utxos_ok THEN
                  /\ fund_result' = "no utxos"
                  /\ lib_calls' = lib_calls \o <<"balance", "utxos">>
                  /\ apc' = "exit" /\ aexit' = 0
             ELSE IF aargs.batch_size = 0 THEN
                  /\ fund_result' = "ValueError"
                  /\ lib_calls' = lib_calls \o <<"balance", "utxos">>
                  /\ apc' = "exit" /\ aexit' = 1
             ELSE /\ fund_result' = fund_result
                  /\ lib_calls' = lib_calls \o <<"balance", "utxos">>
                  /\ apc' = "fund_batch" /\ aexit' = aexit
    /\ UNCHANGED not_ga
    /\ UNCHANGED <<aargs, prompt, funding_wallet, generated_addresses, fund_i, funded_count,
                   abatches, address_file>>

\* an accounting that counts a batch only when its transaction was seen or
\* broadcast
funded_after_broadcast_only(count, batch, sent, broadcasted) ==
    IF sent = "txid" /\ broadcasted THEN count + Len(batch) ELSE count

\* fund_addresses: funded_count after a batch.  With `tx and tx.txid` both
\* branches of `if broadcasted` add len(batch); without a txid, or when send
\* raised, nothing is added
funded_after(count, batch, sent, broadcasted) ==
    IF sent = "txid"
    THEN IF broadcasted THEN count + Len(batch) ELSE count + Len(batch)
    ELSE count

\* fund_addresses: one iteration of the batch loop; after the last one the
\* "Funding complete" line, main's final statistics and the end
GA_FundBatch(sent, broadcasted) ==
    /\ script = "generate_addresses" /\ apc = "fund_batch"
    /\ LET n == Len(generated_addresses)
           batch == slice(generated_addresses, fund_i, fund_i + aargs.batch_size)
           end == fund_i + Len(batch)
       IN /\ lib_calls' = Append(lib_calls, "send")
          /\ abatches' = Append(abatches, [start |-> fund_i, end |-> end, sent |-> sent,
                                           broadcasted |-> sent = "txid" /\ broadcasted,
                                           slept |-> sent = "txid"])
          /\ funded_count' = funded_after(funded_count, batch, sent, broadcasted)
          /\ IF fund_i + aargs.batch_size < n
             THEN /\ fund_i' = fund_i + aargs.batch_size
                  /\ UNCHANGED <<apc, fund_result, aexit>>
             ELSE /\ fund_result' = "complete"
                  /\ apc' = "exit" /\ aexit' = 0
                  /\ fund_i' = fund_i
    /\ UNCHANGED not_ga
    /\ UNCHANGED <<aargs, prompt, funding_wallet, generated_addresses, current_balance,
                   total_needed, address_file>>

GA_Next ==
    \/ \E read_ok \in BOOLEAN : GA_KeyOptions(read_ok)
    \/ \E answer \in Answers : GA_MainnetPrompt(answer)
    \/ \E exists \in BOOLEAN, load_ok \in BOOLEAN, delete_ok \in BOOLEAN, create_ok \in BOOLEAN :
          GA_FundingWallet(exists, load_ok, delete_ok, create_ok)
    \/ \E key_ok \in [1 .. MaxCount + 1 -> BOOLEAN], save_ok \in BOOLEAN :
          GA_GenerateAddresses(key_ok, save_ok)
    \/ \E balance \in Balances \cup {Raised}, service_balance \in Balances \cup {Raised},
          updated_balance \in Balances \cup {Raised}, utxos_ok \in BOOLEAN :
          GA_FundChecks(balance, service_balance, updated_balance, utxos_ok)
    \/ \E sent \in {"txid", "no txid", "raise"}, broadcasted \in BOOLEAN :
          GA_FundBatch(sent, broadcasted)

(***************************************************************************)
(* Config files and their merge into the command-line arguments            *)
(***************************************************************************)

\* A JSON / argparse value: its Python type and its content.  A float is
\* written as a whole number of the unit of its field (0.0001 BTC for
\* amount and max_fee, 0.1 s for delay).
PyInt(n) == [t |-> "int", n |-> n, s |-> ""]
PyFloat(n) == [t |-> "float", n |-> n, s |-> ""]
PyStr(s) == [t |-> "str", n |-> 0, s |-> s]
PyBool(b) == [t |-> "bool", n |-> IF b THEN 1 ELSE 0, s |-> ""]
PyNone == [t |-> "None", n |-> 0, s |-> ""]

\* isinstance(v, int), isinstance(v, (int, float)), isinstance(v, bool),
\* isinstance(v, str); a Python bool is an int
isinstance_int(v) == v.t \in {"int", "bool"}
isinstance_number(v) == v.t \in {"int", "float", "bool"}
isinstance_bool(v) == v.t = "bool"
isinstance_str(v) == v.t = "str"

\* bool(v)
truthy(v) ==
    CASE v.t = "str" -> v.s # ""
      [] v.t = "None" -> FALSE
      [] OTHER -> v.n # 0

\* v == w in Python: numbers compare by value
py_eq(v, w) ==
    IF isinstance_number(v) /\ isinstance_number(w) THEN v.n = w.n ELSE v = w

\* a JSON object is a function from its keys; a config file is its root
\* fields and its sections (the root keys whose value is an object)
EmptyDict == [k \in {} |-> PyNone]

\* d.get(key, default)
dict_get(d, key, default) == IF key \in DOMAIN d THEN d[key] ELSE default

\* config.get(section, {})
section_get(config, section) ==
    IF section \in DOMAIN config.sections THEN config.sections[section] ELSE EmptyDict

\* the argparse defaults of generate_addresses.py
GA_DEFAULT_COUNT == 1000
GA_DEFAULT_BATCH_SIZE == 50
GA_DEFAULT_AMOUNT == 10
GA_DEFAULT_MAX_FEE == 1

ga_defaults ==
    [mainnet |-> PyBool(FALSE), amount |-> PyFloat(GA_DEFAULT_AMOUNT),
     count |-> PyInt(GA_DEFAULT_COUNT), no_funding |-> PyBool(FALSE),
     output |-> PyStr("generated_addresses.json"), private_key |-> PyNone,
     mnemonic |-> PyNone, key_file |-> PyNone, wallet_name |-> PyStr("wallet_0"),
     max_fee |-> PyFloat(GA_DEFAULT_MAX_FEE), batch_size |-> PyInt(GA_DEFAULT_BATCH_SIZE),
     derivation_mode |-> PyBool(FALSE), start_index |-> PyInt(0)]

\* generate_addresses.validate_config: only the root of the file is looked at
ga_validate_config(config) ==
    LET c == config.root
        has(k) == k \in DOMAIN c
    IN /\ ~(has("count") /\ (~isinstance_int(c["count"]) \/ c["count"].n <= 0))
       /\ ~(has("amount") /\ (~isinstance_number(c["amount"]) \/ c["amount"].n <= 0))
       /\ ~(has("max_fee") /\ (~isinstance_number(c["max_fee"]) \/ c["max_fee"].n <= 0))
       /\ ~(has("batch_size") /\ (~isinstance_int(c["batch_size"]) \/ c["batch_size"].n <= 0))
       /\ ~(has("mainnet") /\ ~isinstance_bool(c["mainnet"]))
       /\ ~(has("no_funding") /\ ~isinstance_bool(c["no_funding"]))
       /\ ~(has("derivation_mode") /\ ~isinstance_bool(c["derivation_mode"]))
       /\ ~(has("start_index") /\ (~isinstance_int(c["start_index"]) \/ c["start_index"].n < 0))
       /\ \A field \in {"output", "wallet_name", "private_key", "mnemonic", "key_file"} :
             ~(has(field) /\ ~isinstance_str(c[field]))

\* generate_addresses.merge_config_with_args
ga_merge_config_with_args(config, args) ==
    IF "_address_generation" \in DOMAIN config.sections
    THEN LET addr_config == config.sections["_address_generation"]
             network_config == section_get(config, "_network_settings")
             key_config == section_get(config, "_key_import_options")
         IN [mainnet |->
                IF ~truthy(args.mainnet) /\ truthy(dict_get(network_config, "mainnet", PyBool(FALSE)))
                THEN network_config["mainnet"] ELSE args.mainnet,
             amount |->
                IF py_eq(args.amount, PyFloat(GA_DEFAULT_AMOUNT)) /\ "amount" \in DOMAIN addr_config
                THEN addr_config["amount"] ELSE args.amount,
             count |->
                IF py_eq(args.count, PyInt(GA_DEFAULT_COUNT)) /\ "count" \in DOMAIN addr_config
                THEN addr_config["count"] ELSE args.count,
             no_funding |->
                IF ~truthy(args.no_funding) /\ truthy(dict_get(addr_config, "no_funding", PyBool(FALSE)))
                THEN addr_config["no_funding"] ELSE args.no_funding,
             output |->
                IF py_eq(args.output, PyStr("generated_addresses.json")) /\ "output" \in DOMAIN addr_config
                THEN addr_config["output"] ELSE args.output,
             derivation_mode |->
                IF ~truthy(args.derivation_mode)
                   /\ truthy(dict_get(addr_config, "derivation_mode", PyBool(FALSE)))
                THEN addr_config["derivation_mode"] ELSE args.derivation_mode,
             start_index |->
                IF py_eq(args.start_index, PyInt(0)) /\ "start_index" \in DOMAIN addr_config
                THEN addr_config["start_index"] ELSE args.start_index,
             private_key |->
                IF ~truthy(args.private_key) /\ "private_key" \in DOMAIN key_config
                   /\ truthy(key_config["private_key"])
                THEN key_config["private_key"] ELSE args.private_key,
             mnemonic |->
                IF ~truthy(args.mnemonic) /\ "mnemonic" \in DOMAIN key_config
                   /\ truthy(key_config["mnemonic"])
                THEN key_config["mnemonic"] ELSE args.mnemonic,
             key_file |->
                IF ~truthy(args.key_file) /\ "key_file" \in DOMAIN key_config
                   /\ truthy(key_config["key_file"])
                THEN key_config["key_file"] ELSE args.key_file,
             wallet_name |->
                IF "wallet_name" \in DOMAIN addr_config
                THEN addr_config["wallet_name"] ELSE PyStr("wallet_0"),
             max_fee |->
                IF "max_fee" \in DOMAIN addr_config
                THEN addr_config["max_fee"] ELSE PyFloat(GA_DEFAULT_MAX_FEE),
             batch_size |->
                IF "batch_size" \in DOMAIN addr_config
                THEN addr_config["batch_size"] ELSE PyInt(GA_DEFAULT_BATCH_SIZE)]
    ELSE LET c == config.root
         IN [mainnet |->
                IF ~truthy(args.mainnet) /\ truthy(dict_get(c, "mainnet", PyBool(FALSE)))
                THEN c["mainnet"] ELSE args.mainnet,
             amount |->
                IF py_eq(args.amount, PyFloat(GA_DEFAULT_AMOUNT)) /\ "amount" \in DOMAIN c
                THEN c["amount"] ELSE args.amount,
             count |->
                IF py_eq(args.count, PyInt(GA_DEFAULT_COUNT)) /\ "count" \in DOMAIN c
                THEN c["count"] ELSE args.count,
             no_funding |->
                IF ~truthy(args.no_funding) /\ truthy(dict_get(c, "no_funding", PyBool(FALSE)))
                THEN c["no_funding"] ELSE args.no_funding,
             output |->
                IF py_eq(args.output, PyStr("generated_addresses.json")) /\ "output" \in DOMAIN c
                THEN c["output"] ELSE args.output,
             derivation_mode |->
                IF ~truthy(args.derivation_mode)
                   /\ truthy(dict_get(c, "derivation_mode", PyBool(FALSE)))
                THEN c["derivation_mode"] ELSE args.derivation_mode,
             start_index |->
                IF py_eq(args.start_index, PyInt(0)) /\ "start_index" \in DOMAIN c
                THEN c["start_index"] ELSE args.start_index,
             private_key |->
                IF ~truthy(args.private_key) /\ "private_key" \in DOMAIN c
                THEN c["private_key"] ELSE args.private_key,
             mnemonic |->
                IF ~truthy(args.mnemonic) /\ "mnemonic" \in DOMAIN c
                THEN c["mnemonic"] ELSE args.mnemonic,
             key_file |->
                IF ~truthy(args.key_file) /\ "key_file" \in DOMAIN c
                THEN c["key_file"] ELSE args.key_file,
             wallet_name |->
                IF "wallet_name" \in DOMAIN c THEN c["wallet_name"] ELSE PyStr("wallet_0"),
             max_fee |->
                IF "max_fee" \in DOMAIN c THEN c["max_fee"] ELSE PyFloat(GA_DEFAULT_MAX_FEE),
             batch_size |->
                IF "batch_size" \in DOMAIN c
                THEN c["batch_size"] ELSE PyInt(GA_DEFAULT_BATCH_SIZE)]

\* the argparse defaults of generate_invoices.py
GI_DEFAULT_COUNT == 1000
GI_DEFAULT_BATCH_SIZE == 50
GI_DEFAULT_DELAY == 1

gi_defaults ==
    [api_key |-> PyNone, store_id |-> PyNone,
     base_url |-> PyStr("https://btcpay.example.com"),
     count |-> PyInt(GI_DEFAULT_COUNT), batch_size |-> PyInt(GI_DEFAULT_BATCH_SIZE),
     delay |-> PyFloat(GI_DEFAULT_DELAY), output_dir |-> PyStr("invoice_results")]

\* generate_invoices.validate_config: the required fields are present and
\* the numeric fields are numbers, in the section (universal) or the root
gi_validate_config(config) ==
    LET invoice_config ==
            IF "_invoice_generation" \in DOMAIN config.sections
            THEN config.sections["_invoice_generation"] ELSE config.root
    IN /\ \A field \in {"api_key", "store_id"} : field \in DOMAIN invoice_config
       /\ \A field \in {"count", "batch_size", "delay"} :
             ~(field \in DOMAIN invoice_config /\ ~isinstance_number(invoice_config[field]))

\* generate_invoices.merge_config_with_args
gi_merge_config_with_args(config, args) ==
    LET invoice_config ==
            IF "_invoice_generation" \in DOMAIN config.sections
            THEN config.sections["_invoice_generation"] ELSE config.root
        has(k) == k \in DOMAIN invoice_config
    IN [api_key |->
           IF ~truthy(args.api_key) /\ has("api_key")
           THEN invoice_config["api_key"] ELSE args.api_key,
        store_id |->
           IF ~truthy(args.store_id) /\ has("store_id")
           THEN invoice_config["store_id"] ELSE args.store_id,
        base_url |->
           IF py_eq(args.base_url, PyStr("https://btcpay.example.com")) /\ has("base_url")
           THEN invoice_config["base_url"] ELSE args.base_url,
        count |->
           IF py_eq(args.count, PyInt(GI_DEFAULT_COUNT)) /\ has("count")
           THEN invoice_config["count"] ELSE args.count,
        batch_size |->
           IF py_eq(args.batch_size, PyInt(GI_DEFAULT_BATCH_SIZE)) /\ has("batch_size")
           THEN invoice_config["batch_size"] ELSE args.batch_size,
        delay |->
           IF py_eq(args.delay, PyFloat(GI_DEFAULT_DELAY)) /\ has("delay")
           THEN invoice_config["delay"] ELSE args.delay,
        output_dir |->
           IF py_eq(args.output_dir, PyStr("invoice_results")) /\ has("output_dir")
           THEN invoice_config["output_dir"] ELSE args.output_dir]

\* the argparse defaults of populate_tables.py
PT_DEFAULT_PORT == 5432
PT_DEFAULT_COUNT == 1000
PT_DEFAULT_BATCH_SIZE == 100

pt_defaults ==
    [host |-> PyNone, database |-> PyNone, user |-> PyNone, password |-> PyNone,
     port |-> PyInt(PT_DEFAULT_PORT), count |-> PyInt(PT_DEFAULT_COUNT),
     batch_size |-> PyInt(PT_DEFAULT_BATCH_SIZE),
     output_dir |-> PyStr("payment_results"), store_id |-> PyNone]

\* populate_tables.validate_config
pt_validate_config(config) ==
    LET payments_config ==
            IF "_payments_population" \in DOMAIN config.sections
            THEN config.sections["_payments_population"] ELSE config.root
    IN /\ \A field \in {"host", "database", "user", "password"} :
             field \in DOMAIN payments_config
       /\ \A field \in {"count", "batch_size", "port"} :
             ~(field \in DOMAIN payments_config /\ ~isinstance_number(payments_config[field]))

\* populate_tables.merge_config_with_args
pt_merge_config_with_args(config, args) ==
    LET universal == "_payments_population" \in DOMAIN config.sections
        payments_config ==
            IF universal THEN config.sections["_payments_population"] ELSE config.root
        has(k) == k \in DOMAIN payments_config
        legacy_store_id ==
            IF ~universal /\ ~truthy(args.store_id) /\ "store_id" \in DOMAIN config.root
            THEN config.root["store_id"] ELSE args.store_id
        invoice_config == section_get(config, "_invoice_generation")
    IN [host |->
           IF ~truthy(args.host) /\ has("host") THEN payments_config["host"] ELSE args.host,
        database |->
           IF ~truthy(args.database) /\ has("database")
           THEN payments_config["database"] ELSE args.database,
        user |->
           IF ~truthy(args.user) /\ has("user") THEN payments_config["user"] ELSE args.user,
        password |->
           IF ~truthy(args.password) /\ has("password")
           THEN payments_config["password"] ELSE args.password,
        port |->
           IF py_eq(args.port, PyInt(PT_DEFAULT_PORT)) /\ has("port")
           THEN payments_config["port"] ELSE args.port,
        count |->
           IF py_eq(args.count, PyInt(PT_DEFAULT_COUNT)) /\ has("count")
           THEN payments_config["count"] ELSE args.count,
        batch_size |->
           IF py_eq(args.batch_size, PyInt(PT_DEFAULT_BATCH_SIZE)) /\ has("batch_size")
           THEN payments_config["batch_size"] ELSE args.batch_size,
        output_dir |->
           IF py_eq(args.output_dir, PyStr("payment_results")) /\ has("output_dir")
           THEN payments_config["output_dir"] ELSE args.output_dir,
        store_id |->
           IF ~truthy(legacy_store_id) /\ "store_id" \in DOMAIN invoice_config
           THEN invoice_config["store_id"] ELSE legacy_store_id]

\* the three scripts that read a config file
Programs == {"generate_addresses", "generate_invoices", "populate_tables"}

\* parser.parse_args() with no option given
defaults(program) ==
    CASE program = "generate_addresses" -> ga_defaults
      [] program = "generate_invoices" -> gi_defaults
      [] program = "populate_tables" -> pt_defaults

validate_config(program, cfg) ==
    CASE program = "generate_addresses" -> ga_validate_config(cfg)
      [] program = "generate_invoices" -> gi_validate_config(cfg)
      [] program = "populate_tables" -> pt_validate_config(cfg)

merge_config_with_args(program, cfg, args) ==
    CASE program = "generate_addresses" -> ga_merge_config_with_args(cfg, args)
      [] program = "generate_invoices" -> gi_merge_config_with_args(cfg, args)
      [] program = "populate_tables" -> pt_merge_config_with_args(cfg, args)

\* the config step of main: the file is loaded, validated and, when valid,
\* merged; a file that cannot be loaded or is invalid ends the script with 1
config_step(program, load_ok, cfg, args) ==
    IF ~load_ok THEN [ret |-> 1, args |-> args]
    ELSE IF ~validate_config(program, cfg) THEN [ret |-> 1, args |-> args]
    ELSE [ret |-> 0, args |-> merge_config_with_args(program, cfg, args)]

\* The files and command lines that are tried.  Every field is set on the
\* command line or not, and is absent from the file or holds one of four
\* values; at most MaxFields fields leave their base at the same time.
MaxFields == 2

Absent == [t |-> "absent", n |-> 0, s |-> ""]

kind(program, field) ==
    LET d == defaults(program)[field] IN IF d.t = "None" THEN "str" ELSE d.t

\* a command-line value that is not the default
cli_value(program, field) ==
    CASE kind(program, field) = "int" -> PyInt(2)
      [] kind(program, field) = "float" -> PyFloat(2)
      [] kind(program, field) = "bool" -> PyBool(TRUE)
      [] kind(program, field) = "str" -> PyStr("cli")

ConfigChoices == {"absent", "value", "empty", "wrong type", "negative"}
CliChoices == {"default", "given"}

config_value(program, field, choice) ==
    LET k == kind(program, field)
    IN CASE choice = "absent" -> Absent
         [] choice = "value" ->
              (CASE k = "int" -> PyInt(3) [] k = "float" -> PyFloat(3)
                 [] k = "bool" -> PyBool(TRUE) [] k = "str" -> PyStr("config"))
         [] choice = "empty" ->
              (CASE k = "int" -> PyInt(0) [] k = "float" -> PyFloat(0)
                 [] k = "bool" -> PyBool(FALSE) [] k = "str" -> PyStr(""))
         [] choice = "wrong type" ->
              (IF k = "str" THEN PyInt(7) ELSE PyStr("abc"))
         [] choice = "negative" ->
              (CASE k = "int" -> PyInt(0 - 5) [] k = "float" -> PyFloat(0 - 5)
                 [] k = "bool" -> PyStr("abc") [] k = "str" -> PyInt(7))

\* the fields validate_config requires are in the base file
Required(program) ==
    CASE program = "generate_addresses" -> {}
      [] program = "generate_invoices" -> {"api_key", "store_id"}
      [] program = "populate_tables" -> {"host", "database", "user", "password"}

base_choice(program, field) ==
    IF field \in Required(program) THEN "value" ELSE "absent"

\* the section of the universal shape that holds a field
main_section(program) ==
    CASE program = "generate_addresses" -> "_address_generation"
      [] program = "generate_invoices" -> "_invoice_generation"
      [] program = "populate_tables" -> "_payments_population"

section_of(program, field) ==
    CASE program = "generate_addresses" /\ field = "mainnet" -> "_network_settings"
      [] program = "generate_addresses" /\ field \in {"private_key", "mnemonic", "key_file"} ->
           "_key_import_options"
      [] program = "populate_tables" /\ field = "store_id" -> "_invoice_generation"
      [] OTHER -> main_section(program)

present(fields) == {f \in DOMAIN fields : fields[f] # Absent}

legacy_config(fields) ==
    [root |-> [f \in present(fields) |-> fields[f]],
     sections |-> [sec \in {} |-> EmptyDict]]

universal_config(program, fields) ==
    LET secs == {main_section(program)} \cup {section_of(program, f) : f \in present(fields)}
    IN [root |-> EmptyDict,
        sections |-> [sec \in secs |->
                        [f \in {g \in present(fields) : section_of(program, g) = sec} |->
                            fields[f]]]]

shaped_config(program, shape, fields) ==
    IF shape = "universal" THEN universal_config(program, fields) ELSE legacy_config(fields)

CF_Idle ==
    /\ cprogram = "none" /\ cpc = "idle" /\ cshape = "none"
    /\ cfields = EmptyDict /\ loaded_config = legacy_config(EmptyDict)
    /\ cargs = EmptyDict /\ merged = EmptyDict /\ cexit = 0 - 1

CF_Start ==
    /\ cprogram \in Programs
    /\ cshape \in {"legacy", "universal"}
    /\ \E focus \in {S \in SUBSET DOMAIN defaults(cprogram) : Cardinality(S) <= MaxFields} :
         \E choice \in [focus -> CliChoices \X ConfigChoices] :
           /\ cargs = [f \in DOMAIN defaults(cprogram) |->
                         IF f \in focus /\ choice[f][1] = "given"
                         THEN cli_value(cprogram, f) ELSE defaults(cprogram)[f]]
           /\ cfields = [f \in DOMAIN defaults(cprogram) |->
                           config_value(cprogram, f,
                               IF f \in focus THEN choice[f][2] ELSE base_choice(cprogram, f))]
    /\ loaded_config = shaped_config(cprogram, cshape, cfields)
    /\ cpc = "parsed"
    /\ merged = cargs
    /\ cexit = 0 - 1

\* main, from parse_args to the end of the config step
CF_ConfigStep(load_ok) ==
    /\ script = "config" /\ cpc = "parsed"
    /\ LET r == config_step(cprogram, load_ok, loaded_config, cargs)
       IN /\ merged' = r.args
          /\ cexit' = r.ret
          /\ cpc' = IF ~load_ok THEN "not loaded"
                    ELSE IF r.ret = 1 THEN "rejected" ELSE "merged"
    /\ UNCHANGED <<cprogram, cshape, cfields, loaded_config, cargs>>
    /\ UNCHANGED not_cf

CF_Next == \E load_ok \in BOOLEAN : CF_ConfigStep(load_ok)


(***************************************************************************)
(* test_btcpay_health.py                                                   *)
(***************************************************************************)

\* the tests of run_full_health_check, in the order they are run
HealthTests ==
    <<"Server Connectivity", "API Authentication", "Store Health",
      "Invoice Creation", "Webhook Capability", "Payment Methods">>

\* what a test function can do: return (True, message), return
\* (False, message), or raise
TestOutcomes == {"passed", "failed", "error"}

\* the three parameters main needs
HealthParameters == {"base_url", "api_key", "store_id"}

\* the command lines and config files that are tried: --config given or not,
\* the parameters given on the command line, those in _invoice_generation
HealthArgs ==
    [config : BOOLEAN,
     cli : {{}, {"base_url"}, HealthParameters},
     file : {{}, {"api_key", "store_id"}, HealthParameters}]

\* main: base_url, api_key and store_id, each from the command line or else
\* from the config file
health_parameters(args) == args.cli \cup (IF args.config THEN args.file ELSE {})

\* a status that knows no degraded server
overall_status_passed_only(passed_tests, total_tests) ==
    IF passed_tests > 0 THEN "healthy" ELSE "unhealthy"

\* run_full_health_check, "Determine overall status"
overall_status(passed_tests, total_tests) ==
    IF passed_tests = total_tests THEN "healthy"
    ELSE IF passed_tests > 0 THEN "degraded"
    ELSE "unhealthy"

\* a count of every test that returned, passed or not
passed_after_any_return(passed_tests, outcome) ==
    IF outcome # "error" THEN passed_tests + 1 ELSE passed_tests

\* run_full_health_check: `if success: results["passed_tests"] += 1`; a test
\* that raised is not counted
passed_after(passed_tests, outcome) ==
    IF outcome = "passed" THEN passed_tests + 1 ELSE passed_tests

\* main, "Return appropriate exit code"
health_exit_code(status) ==
    IF status = "healthy" THEN 0 ELSE IF status = "degraded" THEN 1 ELSE 2

HC_Fresh ==
    /\ htests = <<>>
    /\ hresults = [passed_tests |-> 0, total_tests |-> 0, overall_status |-> "none"]
    /\ hsaved = FALSE
    /\ hexit = "none"

HC_Start == hpc = "main" /\ hargs \in HealthArgs /\ HC_Fresh

HC_Idle ==
    /\ hpc = "idle"
    /\ hargs = [config |-> FALSE, cli |-> {}, file |-> {}]
    /\ HC_Fresh

\* main up to the call of run_full_health_check, and the head of that
\* function: the config file is loaded, the three parameters are required,
\* the results start with no test passed
HC_Parameters(load_ok) ==
    /\ script = "test_btcpay_health" /\ hpc = "main"
    /\ IF hargs.config /\ ~load_ok THEN
            /\ hpc' = "exit" /\ hexit' = 1 /\ hresults' = hresults
       ELSE IF health_parameters(hargs) # HealthParameters THEN
            /\ hpc' = "exit" /\ hexit' = 1 /\ hresults' = hresults
       ELSE /\ hpc' = "tests" /\ hexit' = hexit
            /\ hresults' = [passed_tests |-> 0, total_tests |-> Len(HealthTests),
                            overall_status |-> "unknown"]
    /\ UNCHANGED <<hargs, htests, hsaved>>
    /\ UNCHANGED not_hc

\* run_full_health_check: one iteration of the loop over the tests; after the
\* last one the overall status is determined
HC_RunTest(outcome) ==
    /\ script = "test_btcpay_health" /\ hpc = "tests"
    /\ Len(htests) < Len(HealthTests)
    /\ LET test_name == HealthTests[Len(htests) + 1]
           passed_tests == passed_after(hresults.passed_tests, outcome)
           last == Len(htests) + 1 = Len(HealthTests)
       IN /\ htests' = Append(htests, [test |-> test_name, status |-> outcome])
          /\ hresults' =
                [hresults EXCEPT
                    !.passed_tests = passed_tests,
                    !.overall_status =
                        IF last THEN overall_status(passed_tests, hresults.total_tests)
                        ELSE @]
          /\ hpc' = IF last THEN "report" ELSE "tests"
    /\ UNCHANGED <<hargs, hsaved, hexit>>
    /\ UNCHANGED not_hc

\* main after run_full_health_check: print_summary, the results file, the
\* exit code; an exception of the write makes main return 1
HC_Report(save_ok) ==
    /\ script = "test_btcpay_health" /\ hpc = "report"
    /\ hsaved' = save_ok
    /\ hexit' = IF save_ok THEN health_exit_code(hresults.overall_status) ELSE 1
    /\ hpc' = "exit"
    /\ UNCHANGED <<hargs, htests, hresults>>
    /\ UNCHANGED not_hc

\* Ctrl-C while the tests run or the report is made: main returns 130
HC_KeyboardInterrupt ==
    /\ script = "test_btcpay_health" /\ hpc \in {"tests", "report"}
    /\ hexit' = 130
    /\ hpc' = "exit"
    /\ UNCHANGED <<hargs, htests, hresults, hsaved>>
    /\ UNCHANGED not_hc

HC_Next ==
    \/ \E load_ok \in BOOLEAN : HC_Parameters(load_ok)
    \/ \E outcome \in TestOutcomes : HC_RunTest(outcome)
    \/ \E save_ok \in BOOLEAN : HC_Report(save_ok)
    \/ HC_KeyboardInterrupt

(***************************************************************************)
(* run_workflow.py                                                         *)
(***************************************************************************)

\* the sections check_prerequisites requires
RequiredSections == {"_address_generation", "_invoice_generation", "_payment_processing"}

\* the fields of _invoice_generation that may still hold the placeholder of
\* the example config
Placeholders == {"api_key", "store_id", "base_url"}

\* the config files that are tried: all required sections or one missing,
\* any of the three fields left at its placeholder
WorkflowConfigs ==
    [sections : {RequiredSections} \cup {RequiredSections \ {sec} : sec \in RequiredSections},
     placeholders : SUBSET Placeholders]

\* how a child script can end: exit code 0, a non-zero exit code, or
\* subprocess.run raising another exception
ChildOutcomes == {"exit 0", "exit 1", "raise"}

\* a check that looks for the sections only
check_prerequisites_sections_only(cfg) == RequiredSections \subseteq cfg.sections

\* check_prerequisites
check_prerequisites(cfg) ==
    /\ RequiredSections \subseteq cfg.sections
    /\ cfg.placeholders = {}

\* a run_script that takes any exit code for a success
run_script_any_exit(outcome) == outcome # "raise"

\* run_script: True when the child exits with code 0
run_script(outcome) == outcome = "exit 0"

RW_Fresh ==
    /\ children = <<>>
    /\ wcount = [success_count |-> 0, total_steps |-> 0]
    /\ wexit = "none"

RW_Start ==
    /\ wpc = "main"
    /\ wargs \in [skip_addresses : BOOLEAN, skip_invoices : BOOLEAN,
                  skip_payments : BOOLEAN, dry_run : BOOLEAN]
    /\ wconfig \in WorkflowConfigs
    /\ RW_Fresh

RW_Idle ==
    /\ wpc = "idle"
    /\ wargs = [skip_addresses |-> FALSE, skip_invoices |-> FALSE,
                skip_payments |-> FALSE, dry_run |-> FALSE]
    /\ wconfig = [sections |-> {}, placeholders |-> {}]
    /\ RW_Fresh

\* main: load the configuration, check the prerequisites, --dry-run
RW_LoadAndCheck(load_ok) ==
    /\ script = "run_workflow" /\ wpc = "main"
    /\ IF ~load_ok THEN wpc' = "exit" /\ wexit' = 1
       ELSE IF ~check_prerequisites(wconfig) THEN wpc' = "exit" /\ wexit' = 1
       ELSE IF wargs.dry_run THEN wpc' = "exit" /\ wexit' = 0
       ELSE wpc' = "step 1" /\ wexit' = wexit
    /\ UNCHANGED <<wargs, wconfig, children, wcount>>
    /\ UNCHANGED not_rw

\* one step of main: skipped, or the child script is run and a failure ends
\* the workflow with 1
workflow_step(skip, child, outcome, next) ==
    IF skip THEN
        /\ wpc' = next
        /\ UNCHANGED <<children, wcount, wexit>>
    ELSE
        /\ children' = Append(children, [script |-> child, outcome |-> outcome])
        /\ IF run_script(outcome) THEN
                /\ wcount' = [success_count |-> wcount.success_count + 1,
                              total_steps |-> wcount.total_steps + 1]
                /\ wpc' = next /\ wexit' = wexit
           ELSE /\ wcount' = [wcount EXCEPT !.total_steps = @ + 1]
                /\ wpc' = "exit" /\ wexit' = 1

\* main, step 1: generate_addresses.py
RW_GenerateAddresses(outcome) ==
    /\ script = "run_workflow" /\ wpc = "step 1"
    /\ workflow_step(wargs.skip_addresses, "generate_addresses.py", outcome, "step 2")
    /\ UNCHANGED <<wargs, wconfig>>
    /\ UNCHANGED not_rw

\* main, step 2: generate_invoices.py
RW_GenerateInvoices(outcome) ==
    /\ script = "run_workflow" /\ wpc = "step 2"
    /\ workflow_step(wargs.skip_invoices, "generate_invoices.py", outcome, "step 3")
    /\ UNCHANGED <<wargs, wconfig>>
    /\ UNCHANGED not_rw

\* main, step 3: pay_invoices.py
RW_PayInvoices(outcome) ==
    /\ script = "run_workflow" /\ wpc = "step 3"
    /\ workflow_step(wargs.skip_payments, "pay_invoices.py", outcome, "summary")
    /\ UNCHANGED <<wargs, wconfig>>
    /\ UNCHANGED not_rw

\* main, the summary and the exit code
RW_Summary ==
    /\ script = "run_workflow" /\ wpc = "summary"
    /\ wexit' = IF wcount.success_count = wcount.total_steps THEN 0 ELSE 1
    /\ wpc' = "exit"
    /\ UNCHANGED <<wargs, wconfig, children, wcount>>
    /\ UNCHANGED not_rw

RW_Next ==
    \/ \E load_ok \in BOOLEAN : RW_LoadAndCheck(load_ok)
    \/ \E outcome \in ChildOutcomes : RW_GenerateAddresses(outcome)
    \/ \E outcome \in ChildOutcomes : RW_GenerateInvoices(outcome)
    \/ \E outcome \in ChildOutcomes : RW_PayInvoices(outcome)
    \/ RW_Summary

(***************************************************************************)
(* generate_addresses.py: verification and fallback broadcast of one       *)
(* transaction that send has created                                       *)
(***************************************************************************)

\* manual_broadcast_transaction: the three HTTP endpoints in the order of
\* testnet_apis, then the service of the library
Strategies ==
    <<"blockstream.info", "mempool.space", "api.blockcypher.com", "bitcoinlib service">>

\* what service.gettransaction does: returns the transaction, returns
\* nothing, or raises
VerifyOutcomes == {"found", "not found", "raise"}

\* what one strategy does: accepts the transaction (status 200 or 201, a
\* result of sendrawtransaction), rejects it, or raises
StrategyOutcomes == {"accepted", "rejected", "raise"}

\* a fallback that is made whatever the verification found
fallback_always(verify) == TRUE

\* fund_addresses: the manual broadcast is made when gettransaction returned
\* nothing or raised
fallback_needed(verify) == verify # "found"

\* manual_broadcast_transaction: a strategy has succeeded
strategy_succeeded(outcome) == outcome = "accepted"

BC_Fresh == btried = <<>> /\ tx_broadcasted = "none"

BC_Start ==
    /\ bpc = "verify"
    /\ btx \in [verify : VerifyOutcomes, raw_hex : BOOLEAN,
                 strategies : [1 .. Len(Strategies) -> StrategyOutcomes]]
    /\ BC_Fresh

BC_Idle ==
    /\ bpc = "idle"
    /\ btx = [verify |-> "found", raw_hex |-> FALSE,
              strategies |-> [k \in 1 .. Len(Strategies) |-> "rejected"]]
    /\ BC_Fresh

\* fund_addresses after send returned a txid: gettransaction, and when the
\* transaction is not found or the call raises the manual broadcast, if the
\* transaction has raw_hex
BC_Verify ==
    /\ script = "broadcast" /\ bpc = "verify"
    /\ IF ~fallback_needed(btx.verify) THEN bpc' = "done" /\ tx_broadcasted' = "True"
       ELSE IF ~btx.raw_hex THEN bpc' = "done" /\ tx_broadcasted' = "False"
       ELSE bpc' = "manual_broadcast" /\ tx_broadcasted' = tx_broadcasted
    /\ UNCHANGED <<btx, btried>>
    /\ UNCHANGED not_bc

\* manual_broadcast_transaction: the next strategy is tried; True at the
\* first one that succeeds, False after the last one
BC_TryStrategy ==
    /\ script = "broadcast" /\ bpc = "manual_broadcast"
    /\ LET k == Len(btried) + 1
       IN /\ btried' = Append(btried, Strategies[k])
          /\ IF strategy_succeeded(btx.strategies[k])
             THEN bpc' = "done" /\ tx_broadcasted' = "True"
             ELSE IF k = Len(Strategies)
             THEN bpc' = "done" /\ tx_broadcasted' = "False"
             ELSE bpc' = bpc /\ tx_broadcasted' = tx_broadcasted
    /\ UNCHANGED btx
    /\ UNCHANGED not_bc

BC_Next == BC_Verify \/ BC_TryStrategy

(***************************************************************************)
(* generate_addresses.py: create_or_load_funding_wallet called again and   *)
(* again on one wallet database                                            *)
(***************************************************************************)

FW_Start == wallet_exists \in BOOLEAN /\ wallet_log = <<>>

FW_Idle == wallet_exists = FALSE /\ wallet_log = <<>>

\* one call of create_or_load_funding_wallet, with or without a key
FW_Call(key, load_ok, delete_ok, create_ok) ==
    /\ script = "funding_wallet" /\ Len(wallet_log) < MaxCalls
    /\ LET r == create_or_load_funding_wallet(wallet_exists, key, load_ok, delete_ok,
                                              create_ok)
       IN /\ wallet_exists' = r.exists
          /\ wallet_log' = Append(wallet_log, [key |-> key, existed |-> wallet_exists,
                                               result |-> r.result, deleted |-> r.deleted])
    /\ UNCHANGED not_fw

FW_Next ==
    \E key \in BOOLEAN, load_ok \in BOOLEAN, delete_ok \in BOOLEAN, create_ok \in BOOLEAN :
        FW_Call(key, load_ok, delete_ok, create_ok)

(***************************************************************************)
(* generate_addresses.py: generate_addresses_from_path                     *)
(***************************************************************************)

\* list[j] of Python raises IndexError outside -len .. len - 1
in_range(list, j) == 0 - Len(list) <= j /\ j < Len(list)

\* list[j] of Python: a negative j counts from the end of the list
getitem(list, j) == IF j < 0 THEN list[Len(list) + j + 1] ELSE list[j + 1]

\* wallet.get_keys(account_id=0, number_of_keys=n): the first n keys of the
\* account in the order of their derivation, the key at place p named p
get_keys(n) == [p \in 1 .. n |-> p - 1]

DP_Start ==
    /\ dpc = "start"
    /\ dargs \in [start_index : 0 .. MaxCount, count : CountArgs, funding_wallet : BOOLEAN]
    /\ dkeys = <<>> /\ d_i = 0 /\ daddresses = <<>>

DP_Idle ==
    /\ dpc = "idle"
    /\ dargs = [start_index |-> 0, count |-> 0, funding_wallet |-> FALSE]
    /\ dkeys = <<>> /\ d_i = 0 /\ daddresses = <<>>

\* the check of the funding wallet and get_keys; without a wallet and when
\* get_keys raises [] is returned
DP_GetKeys(keys_ok) ==
    /\ script = "derivation" /\ dpc = "start"
    /\ IF dargs.funding_wallet /\ keys_ok
       THEN /\ dkeys' = get_keys(dargs.count + dargs.start_index)
            /\ d_i' = dargs.start_index
            /\ dpc' = "loop"
       ELSE /\ dpc' = "done"
            /\ UNCHANGED <<dkeys, d_i>>
    /\ UNCHANGED <<dargs, daddresses>>
    /\ UNCHANGED not_dp

\* one iteration of `for i in range(start_index, start_index + count)`: the
\* record of index i is made of keys[i-1], and an exception skips the record
DP_Record ==
    /\ script = "derivation" /\ dpc = "loop"
    /\ d_i < dargs.start_index + dargs.count
    /\ daddresses' = IF in_range(dkeys, d_i - 1)
                     THEN Append(daddresses, [index |-> d_i, key |-> getitem(dkeys, d_i - 1)])
                     ELSE daddresses
    /\ d_i' = d_i + 1
    /\ UNCHANGED <<dpc, dargs, dkeys>>
    /\ UNCHANGED not_dp

\* the end of the loop: generated_addresses is set and addresses returned
DP_Return ==
    /\ script = "derivation" /\ dpc = "loop"
    /\ d_i >= dargs.start_index + dargs.count
    /\ dpc' = "done"
    /\ UNCHANGED <<dargs, dkeys, d_i, daddresses>>
    /\ UNCHANGED not_dp

DP_Next ==
    \/ \E keys_ok \in BOOLEAN : DP_GetKeys(keys_ok)
    \/ DP_Record
    \/ DP_Return

(***************************************************************************)
(* Specifications                                                          *)
(***************************************************************************)
InitInvoices == script = "generate_invoices" /\ GI_Start /\ PT_Idle /\ GA_Idle /\ CF_Idle /\ HC_Idle /\ RW_Idle /\ BC_Idle /\ FW_Idle /\ DP_Idle
SpecInvoices == InitInvoices /\ [][GI_Next]_vars

InitPopulate == script = "populate_tables" /\ PT_Start /\ GI_Idle /\ GA_Idle /\ CF_Idle /\ HC_Idle /\ RW_Idle /\ BC_Idle /\ FW_Idle /\ DP_Idle
SpecPopulate == InitPopulate /\ [][PT_Next]_vars

InitAddresses == script = "generate_addresses" /\ GA_Start /\ GI_Idle /\ PT_Idle /\ CF_Idle /\ HC_Idle /\ RW_Idle /\ BC_Idle /\ FW_Idle /\ DP_Idle
SpecAddresses == InitAddresses /\ [][GA_Next]_vars

InitTablesCalls == script = "create_tables" /\ TB_Start /\ GI_Idle /\ GA_Idle /\ CF_Idle /\ HC_Idle /\ RW_Idle /\ BC_Idle /\ FW_Idle /\ DP_Idle
SpecTables == InitTablesCalls /\ [][TB_Next]_vars

InitConfig ==
    script = "config" /\ CF_Start /\ GI_Idle /\ PT_Idle /\ GA_Idle /\ HC_Idle /\ RW_Idle /\ BC_Idle /\ FW_Idle /\ DP_Idle
SpecConfig == InitConfig /\ [][CF_Next]_vars

InitHealth ==
    script = "test_btcpay_health" /\ HC_Start /\ GI_Idle /\ PT_Idle /\ GA_Idle /\ CF_Idle /\ RW_Idle /\ BC_Idle /\ FW_Idle /\ DP_Idle
SpecHealth == InitHealth /\ [][HC_Next]_vars

InitBroadcast ==
    script = "broadcast" /\ BC_Start /\ GI_Idle /\ PT_Idle /\ GA_Idle /\ CF_Idle /\ HC_Idle /\ RW_Idle /\ FW_Idle /\ DP_Idle
SpecBroadcast == InitBroadcast /\ [][BC_Next]_vars

InitFundingWallet ==
    script = "funding_wallet" /\ FW_Start /\ GI_Idle /\ PT_Idle /\ GA_Idle /\ CF_Idle /\ HC_Idle /\ RW_Idle /\ BC_Idle /\ DP_Idle
SpecFundingWallet == InitFundingWallet /\ [][FW_Next]_vars

InitDerivation ==
    script = "derivation" /\ DP_Start /\ GI_Idle /\ PT_Idle /\ GA_Idle /\ CF_Idle /\ HC_Idle /\ RW_Idle /\ BC_Idle /\ FW_Idle
SpecDerivation == InitDerivation /\ [][DP_Next]_vars

InitWorkflow ==
    script = "run_workflow" /\ RW_Start /\ GI_Idle /\ PT_Idle /\ GA_Idle /\ CF_Idle /\ HC_Idle /\ BC_Idle /\ FW_Idle /\ DP_Idle
SpecWorkflow == InitWorkflow /\ [][RW_Next]_vars

\* a run of any one of the scripts that generate, populate or orchestrate;
\* populate_tables is run with --populate-invoices and generate_addresses
\* on testnet without a key to import here, SpecPopulate and SpecAddresses run them with
\* and without
Init ==
    \/ InitInvoices
    \/ InitPopulate /\ pargs.populate_invoices
    \/ InitAddresses /\ aargs.keys = {} /\ ~aargs.mainnet
    \/ InitWorkflow
Next == GI_Next \/ PT_Next \/ GA_Next \/ RW_Next
Spec == Init /\ [][Next]_vars

(***************************************************************************)
(* Properties                                                              *)
(***************************************************************************)
Range(f) == {f[x] : x \in DOMAIN f}

\* ceil(count / size) for count, size > 0
CeilDiv(count, size) == (count + size - 1) \div size

\* the batches of one populate_tables loop, as <<start, end>> pairs
TableBatches(table) ==
    LET F[k \in 0 .. Len(pbatches)] ==
            IF k = 0 THEN <<>>
            ELSE IF pbatches[k].table = table
                 THEN Append(F[k - 1], <<pbatches[k].start, pbatches[k].end>>)
                 ELSE F[k - 1]
    IN F[Len(pbatches)]

FundBatches == [k \in 1 .. Len(abatches) |-> <<abatches[k].start, abatches[k].end>>]

\* the invoice batch whose gather has resolved
GatherResolved ==
    /\ ipc = "gather"
    /\ \A i \in DOMAIN batch_tasks : batch_tasks[i] # "inflight"

\* C1: when a bulk run (generate_invoices_batch, populate_invoices,
\* populate_payments) completes, successful + failed equals total_requested,
\* and every batch contributes exactly as many outcomes as it has units,
\* whatever units or batches failed.
C1_OutcomesEqualRequested ==
    /\ isummary => stats.successful + stats.failed = stats.total_requested
    /\ GatherResolved =>
          stats.successful + stats.failed = ibatches[Len(ibatches)][2]
    /\ "invoices" \in pexported =>
          inv_stats.successful + inv_stats.failed = inv_stats.total_requested
    /\ "payments" \in pexported =>
          pay_stats.successful + pay_stats.failed = pay_stats.total_requested
    /\ \A k \in 1 .. Len(pbatches) :
          pbatches[k].successful + pbatches[k].failed = pbatches[k].end - pbatches[k].start

\* C2: a failing unit or batch never aborts the run: once a bulk run has
\* started its first batch, the run ends only after its last batch was
\* attempted and its end-of-run summary was reached.
C2_FailureNeverAborts ==
    /\ (ipc = "exit" /\ ibatches # <<>>) =>
          /\ isummary
          /\ ibatches[Len(ibatches)][2] = iargs.count
    /\ (ppc = "exit" /\ pbatches # <<>>) =>
          /\ pexported = {"invoices", "payments"}
          /\ pbatches[Len(pbatches)].table = "Payments"
          /\ pbatches[Len(pbatches)].end = pargs.count
    /\ (apc = "exit" /\ abatches # <<>>) =>
          /\ fund_result = "complete"
          /\ abatches[Len(abatches)].end = Len(generated_addresses)

\* the text a failure record carries for a failed request
ErrorText(resp) ==
    CASE resp = "http500" -> "HTTP 500"
      [] resp = "timeout" -> "Request timeout"
      [] resp = "exception" -> "ClientError"
      [] OTHER -> "none"

\* C3: in invoice generation every unit whose request failed (non-200,
\* timeout, exception) has raised stats['failed'] by exactly one and has
\* exactly one record in failed_invoices, with the unit's 1-based index and
\* the HTTP status or error text.
C3_OneFailureRecordPerFailedUnit ==
    LET failed_units == {i \in DOMAIN responses : responses[i] # "http200"}
        ok_units == {i \in DOMAIN responses : responses[i] = "http200"}
    IN /\ stats.failed = Cardinality(failed_units)
       /\ stats.successful = Cardinality(ok_units)
       /\ Len(failed_invoices) = Cardinality(failed_units)
       /\ \A i \in failed_units :
             \E j \in 1 .. Len(failed_invoices) :
                /\ failed_invoices[j].index = i
                /\ failed_invoices[j].error = ErrorText(responses[i])

\* the batches `bs` of a loop over `count` units in batches of `size`: batch
\* k starts where batch k-1 ended, starting at 0, none is empty, all but
\* possibly the last hold `size` units; and once the loop is complete there
\* are ceil(count/size) of them, every index of [0, count) lies in exactly one,
\* and the last holds count mod size units, or size when that is zero
IsPartition(bs, size, count, complete) ==
    /\ \A k \in 1 .. Len(bs) :
          /\ bs[k][1] = (IF k = 1 THEN 0 ELSE bs[k - 1][2])
          /\ bs[k][1] < bs[k][2]
          /\ bs[k][2] <= count
          /\ k < Len(bs) => bs[k][2] - bs[k][1] = size
          /\ bs[k][2] - bs[k][1] <= size
    /\ complete =>
          /\ Len(bs) = CeilDiv(count, size)
          /\ \A x \in 0 .. count - 1 :
                Cardinality({k \in 1 .. Len(bs) : bs[k][1] <= x /\ x < bs[k][2]}) = 1
          /\ bs[Len(bs)][2] - bs[Len(bs)][1] =
                (IF count % size = 0 THEN size ELSE count % size)

\* C4: for count > 0 and batch_size > 0 the batch loops of the three scripts
\* partition the unit indices: contiguous, non-overlapping batches in
\* increasing order, ceil(count/batch_size) of them, all of batch_size units
\* but the last, which has count mod batch_size units (or batch_size).
C4_BatchesPartitionUnits ==
    /\ ibatches # <<>> =>
          IsPartition(ibatches, iargs.batch_size, iargs.count, isummary)
    /\ TableBatches("Invoices") # <<>> =>
          IsPartition(TableBatches("Invoices"), pargs.batch_size, pargs.count,
                      "invoices" \in pexported)
    /\ TableBatches("Payments") # <<>> =>
          IsPartition(TableBatches("Payments"), pargs.batch_size, pargs.count,
                      "payments" \in pexported)
    /\ abatches # <<>> =>
          IsPartition(FundBatches, aargs.batch_size, Len(generated_addresses),
                      fund_result = "complete")

\* a completed loop whose last batch is a short one, after a full one
C4_Witness ==
    /\ "payments" \in pexported
    /\ pargs.count = 3 /\ pargs.batch_size = 2
    /\ TableBatches("Payments") = <<(<<0, 2>>), (<<2, 3>>)>>

\* the satoshis the funding of all generated addresses needs: amount plus
\* maximum fee, per address
C5_Needed ==
    ((aargs.amount \div 10) + (aargs.max_fee \div 10)) * Len(generated_addresses)

\* C5: fund_addresses checks the balance before the batch loop: when the
\* balance is below (amount + max_fee) * number of addresses, funding stops
\* there and funding_wallet.send is never called.
C5_InsufficientBalanceSendsNothing ==
    ((apc = "fund_batch" \/ fund_result # "none") /\ current_balance < C5_Needed) =>
        /\ fund_result = "insufficient balance"
        /\ apc = "exit"
        /\ abatches = <<>>
        /\ "send" \notin Range(lib_calls)

\* balance 5, 3 addresses, amount 2 and fee 1 satoshi: 9 needed, nothing sent
C5_Witness ==
    /\ fund_result = "insufficient balance"
    /\ current_balance = 5
    /\ Len(generated_addresses) = 3
    /\ aargs.amount = 20 /\ aargs.max_fee = 10
    /\ "send" \notin Range(lib_calls)

\* C6: in every bulk script a count <= 0 or batch size <= 0 ends the run
\* with a configuration error (exit code 1) before any collaborator (HTTP
\* API, database, wallet library) is called.
C6_BadCountFailsBeforeCollaborators ==
    /\ (script = "generate_invoices" /\ (iargs.count <= 0 \/ iargs.batch_size <= 0)) =>
          /\ api_calls = 0
          /\ ipc = "exit" => iexit = 1
    /\ (script = "populate_tables" /\ (pargs.count <= 0 \/ pargs.batch_size <= 0)) =>
          /\ db_calls = 0
          /\ ppc = "exit" => pexit = 1
    /\ (script = "generate_addresses" /\ (aargs.count <= 0 \/ aargs.batch_size <= 0)) =>
          /\ lib_calls = <<>>
          /\ apc = "exit" => aexit = 1

\* the funding of a run of generate_addresses failed: the balance or the
\* UTXO check stopped it, or the send of some batch gave no transaction
FundingFailed ==
    \/ fund_result \in {"insufficient balance", "no utxos"}
    \/ \E k \in 1 .. Len(abatches) : abatches[k].sent # "txid"

\* C11: the exit code of a bulk script is 1 when a unit failed (an invoice, a
\* row, the funding) and 0 when the run went through with every unit done.
C11_ExitCodeTellsFailure ==
    /\ ipc = "exit" =>
          /\ (\E i \in DOMAIN responses : responses[i] # "http200") => iexit = 1
          /\ (isummary /\ \A i \in DOMAIN responses : responses[i] = "http200") => iexit = 0
    /\ ppc = "exit" =>
          /\ (\E k \in 1 .. Len(pbatches) : pbatches[k].failed > 0) => pexit = 1
          /\ ("payments" \in pexported /\ \A k \in 1 .. Len(pbatches) : pbatches[k].failed = 0)
                => pexit = 0
    /\ apc = "exit" =>
          /\ FundingFailed => aexit = 1
          /\ (fund_result = "complete" /\ ~FundingFailed) => aexit = 0

\* the number of tests of the health check that passed
PassedTests == Cardinality({k \in 1 .. Len(htests) : htests[k].status = "passed"})

\* the status the health check is to report for the tests it ran: healthy
\* iff all six passed, unhealthy iff none did, degraded otherwise
StatusOfTests ==
    /\ hresults.total_tests = 6
    /\ hresults.passed_tests = PassedTests
    /\ hresults.overall_status = "healthy" <=> PassedTests = 6
    /\ hresults.overall_status = "degraded" <=> (PassedTests > 0 /\ PassedTests < 6)
    /\ hresults.overall_status = "unhealthy" <=> PassedTests = 0

\* the exit code that goes with the reported status
CodeOfStatus ==
    /\ hresults.overall_status = "healthy" => hexit = 0
    /\ hresults.overall_status = "degraded" => hexit = 1
    /\ hresults.overall_status = "unhealthy" => hexit = 2

\* C12 as stated: once the six checks have run the status is healthy,
\* degraded or unhealthy by the number of passed checks, the exit code is 0,
\* 1 or 2 respectively, and passed_tests never exceeds total_tests.
C12_StatusAndExitCodeOfEveryRun ==
    /\ hresults.overall_status # "none" => hresults.passed_tests <= hresults.total_tests
    /\ (hpc = "exit" /\ Len(htests) = Len(HealthTests)) => StatusOfTests /\ CodeOfStatus

\* C12: once the six checks have run the status is healthy, degraded or
\* unhealthy by the number of passed checks and passed_tests never exceeds
\* total_tests; the exit code is 0, 1 or 2 respectively when the results file
\* was written, 1 when writing it raised and 130 when the run was interrupted.
C12_StatusAndExitCodeOfReportedRun ==
    /\ hresults.overall_status # "none" => hresults.passed_tests <= hresults.total_tests
    /\ (hpc \in {"report", "exit"} /\ Len(htests) = Len(HealthTests)) => StatusOfTests
    /\ (hpc = "exit" /\ hsaved) => CodeOfStatus
    /\ (hpc = "exit" /\ Len(htests) = Len(HealthTests) /\ ~hsaved) => hexit \in {1, 130}

\* a degraded server: one check raised, one failed, four passed, exit code 1
C12_Witness ==
    /\ hpc = "exit" /\ hsaved /\ hexit = 1
    /\ hresults.overall_status = "degraded" /\ hresults.passed_tests = 4
    /\ \E k \in 1 .. Len(htests) : htests[k].status = "error"
    /\ \E k \in 1 .. Len(htests) : htests[k].status = "failed"

\* C13: a run of generate_invoices or populate_tables that has started its
\* bulk run and exits has exported its results: the invoice generator has
\* called export_results, and populate_tables has exported the results of
\* both of its populators.
C13_StartedRunExportsBeforeExit ==
    /\ (ipc = "exit" /\ ibatches # <<>>) => iexported
    /\ (ppc = "exit" /\ pbatches # <<>>) => pexported = {"invoices", "payments"}

\* C14: a failed pre-flight check leaves the external state alone: when the
\* argument validation or the connection test of generate_invoices or
\* populate_tables fails no invoice is posted, no table is created and no row
\* is inserted, and when the balance check of fund_addresses fails no wallet
\* has been deleted or created and no address file has been written.
C14_FailedPreflightMutatesNothing ==
    /\ (ipc = "exit" /\ iexit = 1 /\ stats.total_requested = 0) =>
            /\ ibatches = <<>>
            /\ api_calls <= 1
    /\ (ppc = "exit" /\ db_calls <= 1) =>
            /\ ddl_log = <<>>
            /\ pbatches = <<>>
    /\ fund_result = "insufficient balance" =>
            /\ \A k \in 1 .. Len(lib_calls) :
                    lib_calls[k] \notin {"wallet_delete_if_exists", "Wallet.create"}
            /\ address_file = <<>>

\* C15: the modes that only test do nothing else: with --test-only
\* generate_invoices posts no invoice and populate_tables inserts no row,
\* with --dry-run run_workflow starts no child script; each of them returns
\* 0 only after its checks have passed (valid arguments and a connection
\* test made, both tables ensured, the prerequisites met).
C15_TestModesDoNothingElse ==
    /\ iargs.test_only =>
            /\ ibatches = <<>> /\ generated_invoices = <<>> /\ failed_invoices = <<>>
            /\ api_calls <= 1
            /\ ipc = "exit" => iexit \in {0, 1}
            /\ (ipc = "exit" /\ iexit = 0) =>
                    iargs.count > 0 /\ iargs.batch_size > 0 /\ api_calls = 1
    /\ pargs.test_only =>
            /\ pbatches = <<>> /\ generated_payments = <<>> /\ inv_generated_invoices = <<>>
            /\ ppc = "exit" => pexit \in {0, 1}
            /\ (ppc = "exit" /\ pexit = 0) =>
                    /\ pargs.count > 0 /\ pargs.batch_size > 0
                    /\ Len(ddl_log) = 2
                    /\ \A k \in 1 .. Len(ddl_log) : ddl_log[k].ret
            /\ (ppc = "exit" /\ Len(ddl_log) = 2 /\ ddl_log[2].ret) => pexit = 0
    /\ wargs.dry_run =>
            /\ children = <<>>
            /\ wpc = "exit" => wexit \in {0, 1}
            /\ (wpc = "exit" /\ wexit = 0) =>
                    /\ RequiredSections \subseteq wconfig.sections
                    /\ wconfig.placeholders = {}

\* a dry run of the workflow whose prerequisites are met has ended with 0
\* and no child
C15_Witness ==
    /\ wpc = "exit" /\ wargs.dry_run /\ wexit = 0 /\ children = <<>>
    /\ ~wargs.skip_addresses /\ ~wargs.skip_invoices /\ ~wargs.skip_payments

\* C16: a run of populate_tables without --populate-invoices touches the
\* Payments table only: it neither creates the Invoices table nor inserts a
\* row into it, and its payments reference no inserted invoice.
C16_PaymentsOnlyWithoutTheFlag ==
    ~pargs.populate_invoices =>
        /\ \A k \in 1 .. Len(ddl_log) : ddl_log[k].table # "Invoices"
        /\ \A k \in 1 .. Len(pbatches) : pbatches[k].table # "Invoices"
        /\ inv_generated_invoices = <<>>
        /\ invoice_ids = <<>>

\* the steps of the workflow in their order, and whether args skip a step
WorkflowSteps == <<"generate_addresses.py", "generate_invoices.py", "pay_invoices.py">>
StepSkipped(j) ==
    CASE j = 1 -> wargs.skip_addresses
      [] j = 2 -> wargs.skip_invoices
      [] j = 3 -> wargs.skip_payments
StepOf(k) == CHOOSE j \in 1 .. 3 : WorkflowSteps[j] = children[k].script
StepSucceeded(j) ==
    \E a \in 1 .. Len(children) :
        children[a] = [script |-> WorkflowSteps[j], outcome |-> "exit 0"]
EveryStepSucceeded == \A j \in 1 .. 3 : ~StepSkipped(j) => StepSucceeded(j)
PrerequisitesMet ==
    /\ RequiredSections \subseteq wconfig.sections
    /\ wconfig.placeholders = {}

\* the children are started in the order of the steps; a step is started only
\* if it is not skipped, the prerequisites are met, this is no dry run and
\* every earlier step that is not skipped has succeeded; a failed child is
\* the last one and makes the exit code 1
StepsInOrderUntilFirstFailure ==
    /\ \A a, b \in 1 .. Len(children) : a < b => StepOf(a) < StepOf(b)
    /\ \A k \in 1 .. Len(children) :
            /\ ~StepSkipped(StepOf(k))
            /\ PrerequisitesMet /\ ~wargs.dry_run
            /\ \A j \in 1 .. StepOf(k) - 1 : ~StepSkipped(j) => StepSucceeded(j)
            /\ children[k].outcome # "exit 0" =>
                    k = Len(children) /\ wpc = "exit" /\ wexit = 1

\* C17 as stated: the steps run in order until the first failure, and the
\* exit code of every run is 0 exactly when every step that is not skipped
\* has succeeded.
C17_ExitCodeZeroIffEveryStepSucceeded ==
    /\ StepsInOrderUntilFirstFailure
    /\ wpc = "exit" => (wexit = 0 <=> EveryStepSucceeded)

\* C17: the steps run in order until the first failure; exit code 0 means
\* that the prerequisites are met and that either this is a dry run or every
\* step that is not skipped has succeeded, and a run that has started a step
\* exits with 0 exactly when every step that is not skipped has succeeded.
C17_StepsInOrderAndExitCodeOfStartedRun ==
    /\ StepsInOrderUntilFirstFailure
    /\ (wpc = "exit" /\ wexit = 0) =>
            PrerequisitesMet /\ (wargs.dry_run \/ EveryStepSucceeded)
    /\ (wpc = "exit" /\ children # <<>>) => (wexit = 0 <=> EveryStepSucceeded)

\* the second step is skipped, the first succeeds, the third fails
C17_Witness ==
    /\ wpc = "exit" /\ wexit = 1 /\ wargs.skip_invoices
    /\ Len(children) = 2
    /\ children[1] = [script |-> "generate_addresses.py", outcome |-> "exit 0"]
    /\ children[2].script = "pay_invoices.py" /\ children[2].outcome = "raise"

\* C18: the key-import options exclude each other: whenever args hold more
\* than one of private_key, mnemonic and key_file, generate_addresses goes
\* from the start of main to its end only, with no call of the wallet
\* library (no wallet loaded, deleted or created), no address generated or
\* written and no batch funded.
C18_KeyOptionsExcludeEachOther ==
    Cardinality(aargs.keys) > 1 =>
        /\ apc \in {"main", "exit"}
        /\ funding_wallet = "None"
        /\ lib_calls = <<>>
        /\ generated_addresses = <<>> /\ address_file = <<>>
        /\ abatches = <<>> /\ funded_count = 0

\* a run with --private-key and --mnemonic that asks for funded addresses has
\* ended
C18_Witness ==
    /\ apc = "exit" /\ aargs.keys = {"private_key", "mnemonic"}
    /\ aargs.count > 0 /\ aargs.batch_size > 0 /\ ~aargs.no_funding
    /\ lib_calls = <<>>

\* the sizes of the funding batches whose send returned a txid, summed
RECURSIVE SizeOfSentBatches(_)
SizeOfSentBatches(k) ==
    IF k = 0 THEN 0
    ELSE SizeOfSentBatches(k - 1) +
         (IF abatches[k].sent = "txid" THEN abatches[k].end - abatches[k].start ELSE 0)

\* C19: the funding is counted per batch and by the creation of the
\* transaction: after every batch funded_count is the sum of the sizes of
\* the batches so far whose send returned a txid, whether or not the
\* transaction was seen on the network or broadcast by hand, and a batch is
\* the slice of at most batch_size addresses at its start.
C19_FundedCountIsSizeOfSentBatches ==
    /\ funded_count = SizeOfSentBatches(Len(abatches))
    /\ \A k \in 1 .. Len(abatches) :
            abatches[k].end - abatches[k].start =
                Min(aargs.batch_size, Len(generated_addresses) - abatches[k].start)

\* three batches of one address: the first sent but not broadcast, the second
\* without a txid, the third raising
C19_Witness ==
    /\ fund_result = "complete" /\ Len(abatches) = 3
    /\ abatches[1].sent = "txid" /\ ~abatches[1].broadcasted
    /\ abatches[2].sent = "no txid"
    /\ abatches[3].sent = "raise"
    /\ funded_count = 1

\* C20: the delay between batches follows every batch that is followed by
\* another batch, whether it succeeded or failed, and only those: the invoice
\* loop has slept once for every batch but the last, and a batch of the
\* funding loop or of a population loop is followed by a sleep exactly when
\* it is not the final batch.
C20_DelayAfterEveryBatchButTheLast ==
    /\ ibatches # <<>> =>
            idelays = Len(ibatches) - (IF ipc = "dispatch" THEN 0 ELSE 1)
    /\ \A k \in 1 .. Len(abatches) :
            abatches[k].slept <=> abatches[k].end < Len(generated_addresses)
    /\ \A k \in 1 .. Len(pbatches) :
            pbatches[k].slept <=> pbatches[k].end < pargs.count

\* the requests of the invoice batch that are in flight
InFlight == {i \in DOMAIN batch_tasks : batch_tasks[i] = "inflight"}

\* C21: in invoice generation at most batch_size requests are in flight at
\* any time, and the batches are separated by a barrier: the requests in
\* flight all belong to the batch dispatched last, and every request of an
\* earlier batch has resolved.
C21_BatchesSeparatedByBarrier ==
    /\ Cardinality(InFlight) <= iargs.batch_size
    /\ InFlight # {} =>
            /\ ibatches # <<>>
            /\ \A i \in InFlight :
                    ibatches[Len(ibatches)][1] < i /\ i <= ibatches[Len(ibatches)][2]
    /\ \A k \in 1 .. Len(ibatches) - 1 :
            \A i \in (ibatches[k][1] + 1) .. ibatches[k][2] :
                i \in DOMAIN responses /\ i \notin InFlight

\* the second batch has been dispatched with a request in flight, after a
\* first batch of more than one request
C21_Witness ==
    /\ ipc = "gather" /\ Len(ibatches) = 2 /\ InFlight # {}
    /\ ibatches[1][2] - ibatches[1][1] > 1

\* C22: the counters and the outcome lists of the invoice generator change
\* at the completion of a batch only: while a request of the batch is in
\* flight, stats, generated_invoices and failed_invoices hold the outcomes
\* of the earlier batches and nothing of the batch under way.
C22_StatsChangeAtBatchCompletionOnly ==
    (ipc = "gather" /\ InFlight # {}) =>
        /\ stats.successful + stats.failed = ibatches[Len(ibatches)][1]
        /\ Len(generated_invoices) + Len(failed_invoices) = ibatches[Len(ibatches)][1]

\* C23: in populate_tables the outcome lists agree with the counters after
\* every batch and at the end of the run, whatever connect or commit did:
\* generated_payments is as long as stats['successful'] and failed_payments
\* as long as stats['failed'], and likewise for the invoices.
C23_ListsAgreeWithCounters ==
    /\ Len(generated_payments) = pay_stats.successful
    /\ Len(failed_payments) = pay_stats.failed
    /\ Len(inv_generated_invoices) = inv_stats.successful
    /\ Len(inv_failed_invoices) = inv_stats.failed

\* the Ids of the invoice rows that a batch with a successful commit counted
\* as inserted
CommittedInvoiceIds ==
    {<<"b58", i>> : i \in
        {i \in 1 .. MaxCount + 1 :
            \E k \in 1 .. Len(pbatches) :
                /\ pbatches[k].table = "Invoices"
                /\ pbatches[k].start < i
                /\ i <= pbatches[k].start + pbatches[k].successful}}

\* C24: all invoice batches come before the first payment batch, payment i
\* (0-based) references invoice_ids[i mod len(invoice_ids)], and invoice_ids,
\* hence the InvoiceDataId of every payment, holds only Ids of invoices whose
\* batch was committed.
C24_PaymentsReferenceCommittedInvoices ==
    /\ \A a, b \in 1 .. Len(pbatches) :
            (pbatches[a].table = "Payments" /\ pbatches[b].table = "Invoices") => b < a
    /\ \A j \in 1 .. Len(invoice_ids) : invoice_ids[j] \in CommittedInvoiceIds
    /\ invoice_ids # <<>> =>
            \A j \in 1 .. Len(generated_payments) :
                LET p == generated_payments[j]
                IN /\ p.invoice_data_id =
                        invoice_ids[((p.index - 1) % Len(invoice_ids)) + 1]
                   /\ p.invoice_data_id \in CommittedInvoiceIds

\* C25: the fallback broadcast is an ordered list of strategies: a strategy
\* is tried only when the verification found nothing or raised; the
\* strategies tried are the first ones of the list in its order, each one
\* before the last tried has failed; True is returned at the first strategy
\* that succeeds, and False only after all of them were tried and failed.
C25_StrategiesTriedInOrderUntilSuccess ==
    /\ btried # <<>> => btx.verify \in {"not found", "raise"} /\ btx.raw_hex
    /\ Len(btried) <= Len(Strategies)
    /\ \A k \in 1 .. Len(btried) : btried[k] = Strategies[k]
    /\ \A k \in 1 .. Len(btried) - 1 : btx.strategies[k] # "accepted"
    /\ (bpc = "done" /\ btried # <<>>) =>
            /\ tx_broadcasted = "True" <=> btx.strategies[Len(btried)] = "accepted"
            /\ tx_broadcasted = "False" =>
                    /\ Len(btried) = Len(Strategies)
                    /\ \A k \in 1 .. Len(Strategies) : btx.strategies[k] # "accepted"
    /\ (bpc = "done" /\ btx.verify = "found") => btried = <<>> /\ tx_broadcasted = "True"

\* the verification raised, two endpoints rejected the transaction, one
\* raised, and the service of the library accepted it
C25_Witness ==
    /\ bpc = "done" /\ btx.verify = "raise" /\ tx_broadcasted = "True"
    /\ btried = Strategies
    /\ btx.strategies[1] = "rejected" /\ btx.strategies[2] = "raise"
    /\ btx.strategies[3] = "rejected"

\* the run has touched a wallet, generated an address or funded a batch
WalletOrAddressTouched ==
    \/ funding_wallet # "None"
    \/ lib_calls # <<>>
    \/ generated_addresses # <<>> \/ address_file # <<>>
    \/ abatches # <<>>

\* the answer reads yes, in any case, between any number of blanks
ReadsYes(answer) ==
    \E a \in 1 .. Len(answer) :
        /\ a + 2 <= Len(answer)
        /\ answer[a] \in {"y", "Y"} /\ answer[a + 1] \in {"e", "E"}
        /\ answer[a + 2] \in {"s", "S"}
        /\ \A k \in 1 .. Len(answer) : (k < a \/ k > a + 2) => answer[k] = " "

\* C26 as stated: with mainnet selected no wallet is touched, no address is
\* generated and nothing is funded unless the answer to the prompt is
\* exactly 'yes'.
C26_MainnetNeedsExactlyYes ==
    (aargs.mainnet /\ WalletOrAddressTouched) =>
        prompt.asked /\ prompt.answer = <<"y", "e", "s">>

\* C26: with mainnet selected no wallet is touched, no address is generated
\* and nothing is funded unless the operator was asked and the answer,
\* whatever its case and the blanks around it, reads yes; a run on testnet is
\* never asked.
C26_MainnetNeedsYesUpToCaseAndBlanks ==
    /\ (aargs.mainnet /\ WalletOrAddressTouched) =>
            prompt.asked /\ ReadsYes(prompt.answer)
    /\ (aargs.mainnet /\ apc \notin {"main", "mainnet", "exit"}) => prompt.asked
    /\ prompt.asked => aargs.mainnet

\* a mainnet run that was answered " Yes " has funded a batch
C26_Witness ==
    /\ aargs.mainnet /\ prompt.answer = <<" ", "Y", "e", "s", " ">>
    /\ abatches # <<>>

\* C27: a call of create_or_load_funding_wallet without a private key or a
\* mnemonic deletes no wallet that exists: it loads the wallet of the name
\* when the database holds one and creates one only when it holds none
C27_NoKeyNeverDeletesExistingWallet ==
    \A k \in DOMAIN wallet_log :
        ~wallet_log[k].key =>
            /\ ~wallet_log[k].deleted
            /\ wallet_log[k].result = "created" => ~wallet_log[k].existed

\* amount_satoshis * len(batch) + max_fee_satoshis, summed over the first k
\* funding batches whose send did not raise
RECURSIVE SpentBySentBatches(_)
SpentBySentBatches(k) ==
    IF k = 0 THEN 0
    ELSE SpentBySentBatches(k - 1) +
         (IF abatches[k].sent # "raise"
          THEN to_satoshis(aargs.amount) * (abatches[k].end - abatches[k].start)
               + to_satoshis(aargs.max_fee)
          ELSE 0)

\* C28: the balance requirement bounds what the run spends: the funding
\* batches are slices of the generated addresses that do not overlap, so an
\* address is an output of at most one transaction, and the outputs and the
\* fees of the batches sent so far never sum to more than total_needed, the
\* value the balance was compared with, for every batch_size >= 1.
C28_SpendingWithinTotalNeeded ==
    /\ \A k \in 1 .. Len(abatches) :
            /\ 0 <= abatches[k].start /\ abatches[k].start < abatches[k].end
            /\ abatches[k].end <= Len(generated_addresses)
            /\ \A l \in 1 .. Len(abatches) : k < l => abatches[k].end <= abatches[l].start
    /\ aargs.batch_size >= 1 => SpentBySentBatches(Len(abatches)) <= total_needed

\* three addresses funded in a batch of two and a batch of one, both sent
\* with a fee: two fees spent where three were required
C28_Witness ==
    /\ fund_result = "complete" /\ Len(generated_addresses) = 3 /\ Len(abatches) = 2
    /\ \A k \in 1 .. 2 : abatches[k].sent = "txid"
    /\ to_satoshis(aargs.max_fee) > 0 /\ to_satoshis(aargs.amount) > 0
    /\ SpentBySentBatches(2) < total_needed
    /\ current_balance >= total_needed

\* C29: generate_addresses_from_path(start_index, count), with a funding
\* wallet whose get_keys returns, gives count records with the indexes
\* start_index, ..., start_index + count - 1 in order; the record of index i
\* carries the key at place i of the list of derived keys, the places counted
\* from 0 for all records or from 1 for all records; and no two records carry
\* the same key.
C29_RecordOfIndexCarriesKeyOfIndex ==
    dpc = "done" /\ dkeys # <<>> /\ dargs.count >= 0 =>
        /\ Len(daddresses) = dargs.count
        /\ \A k \in 1 .. Len(daddresses) : daddresses[k].index = dargs.start_index + k - 1
        /\ \/ \A k \in 1 .. Len(daddresses) : daddresses[k].key = daddresses[k].index
           \/ \A k \in 1 .. Len(daddresses) : daddresses[k].key = daddresses[k].index - 1
        /\ \A k, l \in 1 .. Len(daddresses) :
                k # l => daddresses[k].key # daddresses[l].key

\* C30: run_full_health_check runs the six tests once each and in the order
\* of the list, whether the earlier ones passed, failed or raised: the
\* entries of results["tests"] are at any moment those of the first tests of
\* the list, one for each, with the status passed, failed or error;
\* passed_tests is the number of entries with the status passed; and once
\* the overall status is determined there is an entry for each of the six.
C30_EveryTestRunsOnceInOrder ==
    /\ Len(htests) <= Len(HealthTests)
    /\ \A k \in 1 .. Len(htests) :
            htests[k].test = HealthTests[k] /\ htests[k].status \in TestOutcomes
    /\ hresults.passed_tests =
            Cardinality({k \in 1 .. Len(htests) : htests[k].status = "passed"})
    /\ hpc = "report" \/ hresults.overall_status \notin {"none", "unknown"} =>
            /\ Len(htests) = Len(HealthTests)
            /\ hresults.total_tests = Len(htests)

\* a complete run whose first test failed and whose second raised, with
\* passed tests after them
C30_Witness ==
    /\ hpc = "report" /\ Len(htests) = 6
    /\ htests[1].status = "failed" /\ htests[2].status = "error"
    /\ htests[3].status = "passed" /\ htests[6].status = "passed"
    /\ hresults.passed_tests = 2

\* the value the merge should give a field: the command-line value when it
\* is not the default, else the value in the file, else the default
expected_merge(program, field, args, fields) ==
    IF args[field] # defaults(program)[field] THEN args[field]
    ELSE IF fields[field] # Absent THEN fields[field]
    ELSE defaults(program)[field]

\* C7: in the merge of each of the three scripts, for every recognized field
\* the merged value is the command-line value when that differs from its
\* default, else the config-file value when present, else the default.
C7_CommandLineTakesPrecedence ==
    cpc = "merged" =>
        \A field \in DOMAIN cargs :
            merged[field] = expected_merge(cprogram, field, cargs, cfields)

\* the type and range a recognized field is to have
right_type_and_range(program, field, v) ==
    CASE kind(program, field) = "int" ->
           v.t = "int" /\ (IF field = "start_index" THEN v.n >= 0 ELSE v.n > 0)
      [] kind(program, field) = "float" ->
           v.t \in {"int", "float"} /\ (IF field = "delay" THEN v.n >= 0 ELSE v.n > 0)
      [] kind(program, field) = "bool" -> v.t = "bool"
      [] kind(program, field) = "str" -> v.t = "str"

\* C8: a config file that loads and in which some recognized field has the
\* wrong type or range is rejected as a whole, in the legacy and in the
\* universal shape: main returns 1 and no argument is changed by the file.
C8_InvalidConfigRejectedAsAWhole ==
    (/\ cpc \in {"rejected", "merged"}
     /\ \E field \in DOMAIN cfields :
           /\ cfields[field] # Absent
           /\ ~right_type_and_range(cprogram, field, cfields[field])) =>
        /\ cpc = "rejected"
        /\ cexit = 1
        /\ merged = cargs

\* C9: merged into arguments that are all at their defaults, the universal
\* and the legacy config holding the same field values give every argument
\* the same value.
C9_UniversalAndLegacyMergeAlike ==
    (cpc = "merged" /\ cargs = defaults(cprogram)) =>
        merged = merge_config_with_args(cprogram,
                     shaped_config(cprogram,
                         IF cshape = "legacy" THEN "universal" ELSE "legacy", cfields),
                     cargs)

\* C10: on a store that has no such table, two calls in a row of
\* create_payments_table_if_not_exists (or create_invoices_table_if_not_exists)
\* both return True, and the second issues no CREATE TABLE and leaves the set
\* of tables unchanged.
C10_TableCreationIdempotent ==
    \A k \in 1 .. Len(ddl_log) - 1 :
        LET first == ddl_log[k]
            second == ddl_log[k + 1]
        IN (/\ first.table = second.table
            /\ first.ddl # "no connection" /\ second.ddl # "no connection"
            /\ first.table \notin first.before
            /\ fold(first.table) \notin first.before) =>
               /\ first.ret /\ second.ret
               /\ second.ddl = "exists"
               /\ second.after = second.before

====
